---- MODULE Spec2Model ----
(***************************************************************************)
(* A model of the Nest cloud SDK: the network manager (REST stream,        *)
(* chunked put reassembly, redirects, error codes, PUT requests), its      *)
(* stream utilities (the protocol codec) and the representation manager    *)
(* (the device / structure cache balancing).                               *)
(*                                                                         *)
(* JavaScript strings are TLA+ strings; TLC evaluates Len, SubSeq and \o   *)
(* on them, so the codec is modelled character by character.               *)
(***************************************************************************)
EXTENDS Integers, Sequences, FiniteSets, TLC

VARIABLES
    accessToken,                            \* NestNetworkManager.accessToken
    serviceStream,                          \* NestNetworkManager.serviceStream
    cachedRedirectUrl,                      \* NestNetworkManager.cachedRedirectUrl
    autoReinitStream,                       \* NestNetworkManager.autoReinitStream
    chunkedPutMessagesAwaitingCompletion,   \* the chunk queue
    requests,          \* the request objects made so far, in order of creation
    promises,          \* the RSVP promises handed to callers
    dataUpdates,       \* serviceStreamDataUpdate emissions, in order
    closedEvents,      \* number of serviceStreamClosed emissions
    warnings,          \* number of data-loss warnings logged
    uncaught,          \* errors thrown out of a handler, in order
    last,              \* what the last handler did (its name and inputs)
    delivered,         \* number of data chunks delivered to the listener
    wire,              \* chunks the server has still to deliver (chunk harness)
    original,          \* the put body the server is sending (chunk harness)
    localDeviceCache,      \* NestRepresentationManager.localDeviceCache
    localStructureCache,   \* NestRepresentationManager.localStructureCache
    hydrated,              \* NestRepresentationManager.hydrated
    hydratedEmissions,     \* number of hydrated emissions so far
    updateEmissions,       \* number of update emissions so far
    reconciles,            \* number of handleNetworkManagerStreamUpdate calls
    deviceTypeOrder,       \* the keys of localDeviceCache in insertion order
    listeners,             \* the callbacks registered with on(), in order
    handed                 \* the objects handed to callers, in order

nmVars == <<accessToken, serviceStream, cachedRedirectUrl, autoReinitStream,
            chunkedPutMessagesAwaitingCompletion, requests, promises,
            dataUpdates, closedEvents, warnings, uncaught, delivered>>
harnessVars == <<wire, original>>
rmVars == <<localDeviceCache, localStructureCache, hydrated,
            hydratedEmissions, updateEmissions, reconciles,
            deviceTypeOrder, listeners, handed>>
vars == <<nmVars, last, harnessVars, rmVars>>

(***************************************************************************)
(* Bounds of the model.                                                    *)
(***************************************************************************)
MaxFragments == 3    \* a put body is split into at most this many chunks
MaxReconciles == 2   \* stream updates handled by one representation manager
MaxRequests == 3     \* request objects created in one run
MaxPromises == 2     \* promises handed out in one run
MaxChunks == 2       \* data chunks delivered in one run of the transport model
MaxListeners == 2    \* callbacks registered with one representation manager
MaxHanded == 3       \* objects handed to callers by one representation manager

Null == "null"       \* JavaScript null

(***************************************************************************)
(* String helpers: String.prototype.trim / split / Array.prototype.join    *)
(* and RegExp.test for a literal pattern.                                  *)
(***************************************************************************)
CharAt(s, i) == SubSeq(s, i, i)

IsWhitespace(c) == c \in {" ", "\n", "\t", "\r"}

MinOf(S) == CHOOSE x \in S : \A y \in S : x <= y

MaxOf(S) == CHOOSE x \in S : \A y \in S : x >= y

Trim(s) ==
    LET solid == {i \in 1..Len(s) : ~IsWhitespace(CharAt(s, i))}
    IN  IF solid = {} THEN "" ELSE SubSeq(s, MinOf(solid), MaxOf(solid))

IndexOf(s, d) ==
    LET hits == {i \in 1..(Len(s) - Len(d) + 1) : SubSeq(s, i, i + Len(d) - 1) = d}
    IN  IF hits = {} THEN 0 ELSE MinOf(hits)

Contains(s, d) == IndexOf(s, d) # 0

RECURSIVE Split(_, _)
Split(s, d) ==
    LET i == IndexOf(s, d)
    IN  IF i = 0 THEN <<s>>
        ELSE <<SubSeq(s, 1, i - 1)>> \o Split(SubSeq(s, i + Len(d), Len(s)), d)

RECURSIVE Join(_)
Join(parts) == IF parts = <<>> THEN "" ELSE Head(parts) \o Join(Tail(parts))

(***************************************************************************)
(* JSON.parse, for the JSON texts the model sends: objects (nested),       *)
(* strings without escapes and unsigned integers, with whitespace between  *)
(* tokens.  The value of a text is its canonical form (the text without    *)
(* insignificant whitespace); JsFalse stands for "JSON.parse threw", which *)
(* the codec turns into the boolean false.                                 *)
(***************************************************************************)
JsFalse == ""

Digits == {"0", "1", "2", "3", "4", "5", "6", "7", "8", "9"}

JsonStep(st, depth, c) ==
    LET to(s, d, k) == [st |-> s, depth |-> d, keep |-> k]
        bad == to("bad", depth, FALSE)
        skip == to(st, depth, FALSE)
        value == IF c = "{" THEN to("objOpen", depth + 1, TRUE)
                 ELSE IF c = "\"" THEN to("sval", depth, TRUE)
                 ELSE IF c = "0" THEN to("zero", depth, TRUE)
                 ELSE IF c \in Digits THEN to("num", depth, TRUE)
                 ELSE IF IsWhitespace(c) THEN skip
                 ELSE bad
        after == IF IsWhitespace(c) THEN to("after", depth, FALSE)
                 ELSE IF depth > 0 /\ c = "," THEN to("expectKey", depth, TRUE)
                 ELSE IF depth > 0 /\ c = "}" THEN to("after", depth - 1, TRUE)
                 ELSE bad
    IN  CASE st \in {"start", "value"} -> value
          [] st = "objOpen" ->
                IF c = "\"" THEN to("key", depth, TRUE)
                ELSE IF c = "}" THEN to("after", depth - 1, TRUE)
                ELSE IF IsWhitespace(c) THEN skip
                ELSE bad
          [] st = "expectKey" ->
                IF c = "\"" THEN to("key", depth, TRUE)
                ELSE IF IsWhitespace(c) THEN skip
                ELSE bad
          [] st = "key" ->
                IF c = "\"" THEN to("colon", depth, TRUE)
                ELSE IF c \in {"\n", "\t", "\r"} THEN bad
                ELSE to("key", depth, TRUE)
          [] st = "colon" ->
                IF c = ":" THEN to("value", depth, TRUE)
                ELSE IF IsWhitespace(c) THEN skip
                ELSE bad
          [] st = "sval" ->
                IF c = "\"" THEN to("after", depth, TRUE)
                ELSE IF c \in {"\n", "\t", "\r"} THEN bad
                ELSE to("sval", depth, TRUE)
          [] st = "num" ->
                IF c \in Digits THEN to("num", depth, TRUE) ELSE after
          [] st = "zero" -> after
          [] st = "after" -> after
          [] OTHER -> bad

RECURSIVE JsonScan(_, _, _, _, _)
JsonScan(s, i, st, depth, acc) ==
    IF st = "bad" THEN JsFalse
    ELSE IF i > Len(s)
         THEN IF st \in {"after", "num", "zero"} /\ depth = 0 THEN acc ELSE JsFalse
         ELSE LET n == JsonStep(st, depth, CharAt(s, i))
              IN  JsonScan(s, i + 1, n.st, n.depth,
                           IF n.keep THEN acc \o CharAt(s, i) ELSE acc)

JSONParse(s) == JsonScan(s, 1, "start", 0, "")

(***************************************************************************)
(* NestNetworkManagerUtils: the protocol codec.                            *)
(***************************************************************************)
parseStringIntoJsObject(body) == JSONParse(body)

splitStringByNewlines(body) == Split(body, "\n")

\* splitBody[0].split(":")[1].trim(); "throws" when the first line has no ":".
extractStreamUpdateEventType(splitBody) ==
    LET fields == Split(splitBody[1], ":")
    IN  IF Len(fields) < 2 THEN [threw |-> TRUE, type |-> ""]
        ELSE [threw |-> FALSE, type |-> Trim(fields[2])]

\* splitBody[1].split("data:")[1].trim(), then the attempted parse; "throws"
\* when there is no second line or the second line holds no "data:".
extractAndParseStreamUpdateEventBody(splitBody) ==
    IF Len(splitBody) < 2 THEN [threw |-> TRUE, raw |-> "", parsed |-> JsFalse]
    ELSE LET fields == Split(splitBody[2], "data:")
         IN  IF Len(fields) < 2 THEN [threw |-> TRUE, raw |-> "", parsed |-> JsFalse]
             ELSE LET dataBodyString == Trim(fields[2])
                  IN  [threw |-> FALSE, raw |-> dataBodyString,
                       parsed |-> parseStringIntoJsObject(dataBodyString)]

(***************************************************************************)
(* NestNetworkManager: the inbound chunk handler.                          *)
(***************************************************************************)
\* Mutant: an event other than put wipes the chunk queue.
_attemptToParseUpdate_IdleWipes(queue, body) ==
    LET rawBodyExtraction == splitStringByNewlines(body)
        out(k, e, b, q, w) ==
            [kind |-> k, event |-> e, body |-> b, queue |-> q, warned |-> w]
    IN  IF ~Contains(body, "event: ")
        THEN LET pushed == Append(queue, body)
                 processedEventBody == JSONParse(Join(pushed))
             IN  IF processedEventBody = JsFalse
                 THEN out("false", "unknown", Null, pushed, FALSE)
                 ELSE out("container", "put", processedEventBody, <<>>, FALSE)
        ELSE LET type == extractStreamUpdateEventType(rawBodyExtraction)
             IN  IF type.threw THEN out("throw", "unknown", Null, queue, FALSE)
                 ELSE IF type.type = "put"
                 THEN LET processedEventBody ==
                              extractAndParseStreamUpdateEventBody(rawBodyExtraction)
                      IN  IF processedEventBody.threw
                          THEN out("throw", "put", Null, queue, FALSE)
                          ELSE IF processedEventBody.parsed = JsFalse
                          THEN IF Len(queue) > 0
                               THEN out("throw", "put", Null, queue, FALSE)
                               ELSE out("false", "put", Null,
                                        <<processedEventBody.raw>>, FALSE)
                          ELSE out("container", "put",
                                   processedEventBody.parsed, queue, FALSE)
                 ELSE out("container", type.type, Null, <<>>, FALSE)

\* What _attemptToParseUpdate returns and does to the chunk queue: kind is
\* "false" (keep buffering), "container" (an event container is returned) or
\* "throw" (a TypeError leaves the function; the queue is as it was).
\* The class defines no _warnOfPotentialDataLossInOverwritingQueue, so the
\* call made when a new series starts over a non-empty queue throws before
\* the queue is wiped and before anything is logged.
_attemptToParseUpdate(queue, body) ==
    LET rawBodyExtraction == splitStringByNewlines(body)
        out(k, e, b, q, w) ==
            [kind |-> k, event |-> e, body |-> b, queue |-> q, warned |-> w]
    IN  IF ~Contains(body, "event: ")
        THEN LET pushed == Append(queue, body)
                 processedEventBody == JSONParse(Join(pushed))
             IN  IF processedEventBody = JsFalse
                 THEN out("false", "unknown", Null, pushed, FALSE)
                 ELSE out("container", "put", processedEventBody, <<>>, FALSE)
        ELSE LET type == extractStreamUpdateEventType(rawBodyExtraction)
             IN  IF type.threw THEN out("throw", "unknown", Null, queue, FALSE)
                 ELSE IF type.type = "put"
                 THEN LET processedEventBody ==
                              extractAndParseStreamUpdateEventBody(rawBodyExtraction)
                      IN  IF processedEventBody.threw
                          THEN out("throw", "put", Null, queue, FALSE)
                          ELSE IF processedEventBody.parsed = JsFalse
                          THEN IF Len(queue) > 0
                               THEN out("throw", "put", Null, queue, FALSE)
                               ELSE out("false", "put", Null,
                                        <<processedEventBody.raw>>, FALSE)
                          ELSE out("container", "put",
                                   processedEventBody.parsed, queue, FALSE)
                 ELSE out("container", type.type, Null, queue, FALSE)

\* The keys of STREAM_EVENT_BODY_PROCESSING_MAP and
\* STREAM_EVENT_EMISSION_OPERATION_MAP.
STREAM_EVENT_BODY_PROCESSING_MAP == {"auth_revoked"}

STREAM_EVENT_EMISSION_OPERATION_MAP == {"put"}

\* Mutant: a revocation clears the token but keeps the cached redirect.
_determineStreamUpdateType_KeepsRedirect(body) ==
    LET r == _attemptToParseUpdate(chunkedPutMessagesAwaitingCompletion, body)
        revoked == r.kind = "container" /\ r.event \in STREAM_EVENT_BODY_PROCESSING_MAP
        emits == r.kind = "container" /\ ~revoked
                    /\ r.event \in STREAM_EVENT_EMISSION_OPERATION_MAP
    IN  /\ chunkedPutMessagesAwaitingCompletion' = r.queue
        /\ warnings' = IF r.warned THEN warnings + 1 ELSE warnings
        /\ accessToken' = IF revoked THEN Null ELSE accessToken
        /\ cachedRedirectUrl' = cachedRedirectUrl
        /\ dataUpdates' = IF emits
                          THEN Append(dataUpdates, [event |-> r.event, body |-> r.body])
                          ELSE dataUpdates
        /\ uncaught' = IF r.kind = "throw" \/ revoked
                       THEN Append(uncaught, "TypeError")
                       ELSE uncaught

\* _determineStreamUpdateType: the 'data' listener of the service stream.
\* _processAuthTokenRevokedEvent returns nothing, so the container is
\* undefined when the emission map is consulted and a TypeError is thrown.
_determineStreamUpdateType(body) ==
    LET r == _attemptToParseUpdate(chunkedPutMessagesAwaitingCompletion, body)
        revoked == r.kind = "container" /\ r.event \in STREAM_EVENT_BODY_PROCESSING_MAP
        emits == r.kind = "container" /\ ~revoked
                    /\ r.event \in STREAM_EVENT_EMISSION_OPERATION_MAP
    IN  /\ chunkedPutMessagesAwaitingCompletion' = r.queue
        /\ warnings' = IF r.warned THEN warnings + 1 ELSE warnings
        /\ accessToken' = IF revoked THEN Null ELSE accessToken
        /\ cachedRedirectUrl' = IF revoked THEN Null ELSE cachedRedirectUrl
        /\ dataUpdates' = IF emits
                          THEN Append(dataUpdates, [event |-> r.event, body |-> r.body])
                          ELSE dataUpdates
        /\ uncaught' = IF r.kind = "throw" \/ revoked
                       THEN Append(uncaught, "TypeError")
                       ELSE uncaught

(***************************************************************************)
(* Initial states of the two managers (their constructors).                *)
(***************************************************************************)
apiUrl == "https://developer-api.nest.com"

NoStream == 0       \* serviceStream = null; a held stream is its index in requests

NMInit ==
    /\ accessToken = Null
    /\ serviceStream = NoStream
    /\ cachedRedirectUrl = Null
    /\ autoReinitStream = FALSE
    /\ chunkedPutMessagesAwaitingCompletion = <<>>
    /\ requests = <<>>
    /\ promises = <<>>
    /\ dataUpdates = <<>>
    /\ closedEvents = 0
    /\ warnings = 0
    /\ uncaught = <<>>
    /\ delivered = 0

RMInit ==
    /\ localDeviceCache = <<>>
    /\ localStructureCache = <<>>
    /\ hydrated = FALSE
    /\ hydratedEmissions = 0
    /\ updateEmissions = 0
    /\ reconciles = 0
    /\ deviceTypeOrder = <<>>
    /\ listeners = <<>>
    /\ handed = <<>>

NoCall == [op |-> "none"]

(***************************************************************************)
(* The chunk model: the server sends one put event whose JSON body is cut  *)
(* into 2..MaxFragments contiguous fragments; the first chunk carries the  *)
(* event header, the others are bare continuations.                        *)
(***************************************************************************)
Bodies ==
    { "{\"a\":1}",
      "{\"a\":\"x y\"}",
      "{\"a\":{\"b\":12}}",
      "{\"a\":\"data:\"}" }

CutSets(body) ==
    {c \in SUBSET (1..(Len(body) - 1)) :
        Cardinality(c) >= 1 /\ Cardinality(c) <= MaxFragments - 1}

RECURSIVE Fragments(_, _, _)
Fragments(body, from, cuts) ==
    IF cuts = {} THEN <<SubSeq(body, from, Len(body))>>
    ELSE LET c == MinOf(cuts)
         IN  <<SubSeq(body, from, c)>> \o Fragments(body, c + 1, cuts \ {c})

Chunks(body, cuts) ==
    LET f == Fragments(body, 1, cuts)
    IN  <<"event: put\ndata: " \o Head(f)>> \o Tail(f)

ChunkInit ==
    /\ NMInit
    /\ RMInit
    /\ last = NoCall
    /\ original \in Bodies
    /\ wire \in {Chunks(original, c) : c \in CutSets(original)}

DeliverChunk ==
    /\ wire # <<>>
    /\ _determineStreamUpdateType(Head(wire))
    /\ wire' = Tail(wire)
    /\ last' = [op |-> "data", chunk |-> Head(wire)]
    /\ delivered' = delivered + 1
    /\ UNCHANGED <<serviceStream, requests, promises, closedEvents, original,
                   autoReinitStream, rmVars>>

ChunkNext == DeliverChunk

SpecChunks == ChunkInit /\ [][ChunkNext]_vars

\* C1: a put body cut into N >= 2 fragments yields no event for the first
\* N-1 chunks and exactly one put event, carrying the value of the whole
\* body, on the N-th.
C1_SplitBodyYieldsOnePut ==
    /\ wire # <<>> => dataUpdates = <<>>
    /\ wire = <<>> =>
          dataUpdates = <<[event |-> "put", body |-> JSONParse(original)]>>

(***************************************************************************)
(* lodash on plain objects.  An object is a function from its keys; the    *)
(* fields of a device or structure record are scalars.                     *)
(***************************************************************************)
EmptyObject == <<>>

keys(obj) == DOMAIN obj

has(obj, key) == key \in DOMAIN obj

isEmpty(obj) == DOMAIN obj = {}

difference(a, b) == a \ b

omit(obj, dropped) == [k \in DOMAIN obj \ dropped |-> obj[k]]

\* Mutant: a merge in which the local value of a field wins.
mergeRecord_LocalWins(local, upstream) ==
    [f \in DOMAIN local \cup DOMAIN upstream |->
        IF f \in DOMAIN local THEN local[f] ELSE upstream[f]]

\* merge({}, local, upstream) on two records of scalars.
mergeRecord(local, upstream) ==
    [f \in DOMAIN local \cup DOMAIN upstream |->
        IF f \in DOMAIN upstream THEN upstream[f] ELSE local[f]]

\* merge({}, local, upstream) on two maps of records: merge recurses into
\* the records found on both sides.
merge(local, upstream) ==
    [k \in DOMAIN local \cup DOMAIN upstream |->
        IF k \in DOMAIN local /\ k \in DOMAIN upstream
        THEN mergeRecord(local[k], upstream[k])
        ELSE IF k \in DOMAIN upstream THEN upstream[k] ELSE local[k]]

(***************************************************************************)
(* NestRepresentationManager: cache balancing.                             *)
(***************************************************************************)
\* has( updateObject, [ "body", "data", <container> ] )
hasContainer(updateObject, container) ==
    /\ has(updateObject, "body")
    /\ has(updateObject.body, "data")
    /\ has(updateObject.body.data, container)

\* Mutant: the copy of a new device is stored without its stamp.
stampDeviceType_Missing(record, deviceTypeKey) == record

\* newLocalCache[type][id] = cloneDeep(upstream); ..._deviceType = type
stampDeviceType(record, deviceTypeKey) ==
    [f \in DOMAIN record \cup {"_deviceType"} |->
        IF f = "_deviceType" THEN deviceTypeKey ELSE record[f]]

\* Mutant: one pass stores only one of the newly appeared devices.
balanceBucket_AddsOne(newLocalCache, deviceCategoryMap, deviceTypeKey) ==
    LET inited == IF has(newLocalCache, deviceTypeKey)
                  THEN newLocalCache[deviceTypeKey] ELSE EmptyObject
        representationKeysToRemove == difference(keys(inited), keys(deviceCategoryMap))
        kept == omit(inited, representationKeysToRemove)
        merged == [deviceKey \in DOMAIN kept |->
                      IF has(deviceCategoryMap, deviceKey)
                      THEN mergeRecord(kept[deviceKey], deviceCategoryMap[deviceKey])
                      ELSE kept[deviceKey]]
        appeared == difference(keys(deviceCategoryMap), keys(merged))
        representationKeysToAdd ==
            IF appeared = {} THEN {} ELSE {CHOOSE k \in appeared : TRUE}
    IN  [deviceKey \in DOMAIN merged \cup representationKeysToAdd |->
            IF deviceKey \in representationKeysToAdd
            THEN stampDeviceType(deviceCategoryMap[deviceKey], deviceTypeKey)
            ELSE merged[deviceKey]]

\* Mutant: devices that left the upstream pool stay in the bucket.
balanceBucket_KeepsRemoved(newLocalCache, deviceCategoryMap, deviceTypeKey) ==
    LET inited == IF has(newLocalCache, deviceTypeKey)
                  THEN newLocalCache[deviceTypeKey] ELSE EmptyObject
        merged == [deviceKey \in DOMAIN inited |->
                      IF has(deviceCategoryMap, deviceKey)
                      THEN mergeRecord(inited[deviceKey], deviceCategoryMap[deviceKey])
                      ELSE inited[deviceKey]]
        representationKeysToAdd == difference(keys(deviceCategoryMap), keys(merged))
    IN  [deviceKey \in DOMAIN merged \cup representationKeysToAdd |->
            IF deviceKey \in representationKeysToAdd
            THEN stampDeviceType(deviceCategoryMap[deviceKey], deviceTypeKey)
            ELSE merged[deviceKey]]

\* One pass of the forEach over upstreamDevices, for one device type.
balanceBucket(newLocalCache, deviceCategoryMap, deviceTypeKey) ==
    LET inited == IF has(newLocalCache, deviceTypeKey)
                  THEN newLocalCache[deviceTypeKey] ELSE EmptyObject
        representationKeysToRemove == difference(keys(inited), keys(deviceCategoryMap))
        kept == omit(inited, representationKeysToRemove)
        merged == [deviceKey \in DOMAIN kept |->
                      IF has(deviceCategoryMap, deviceKey)
                      THEN mergeRecord(kept[deviceKey], deviceCategoryMap[deviceKey])
                      ELSE kept[deviceKey]]
        representationKeysToAdd == difference(keys(deviceCategoryMap), keys(merged))
    IN  [deviceKey \in DOMAIN merged \cup representationKeysToAdd |->
            IF deviceKey \in representationKeysToAdd
            THEN stampDeviceType(deviceCategoryMap[deviceKey], deviceTypeKey)
            ELSE merged[deviceKey]]

\* Mutant: an empty devices container is deferred like a missing one.
_balanceDeviceCacheAgainstUpstream_DeferEmpty(cache, updateObject) ==
    IF ~hasContainer(updateObject, "devices") THEN cache
    ELSE IF isEmpty(updateObject.body.data.devices) THEN cache
    ELSE LET upstreamDevices == updateObject.body.data.devices
         IN  [deviceTypeKey \in DOMAIN upstreamDevices |->
                 balanceBucket(cache, upstreamDevices[deviceTypeKey], deviceTypeKey)]

\* The value of localDeviceCache after _balanceDeviceCacheAgainstUpstream.
_balanceDeviceCacheAgainstUpstream(cache, updateObject) ==
    IF ~hasContainer(updateObject, "devices") THEN cache
    ELSE IF isEmpty(updateObject.body.data.devices) THEN EmptyObject
    ELSE LET upstreamDevices == updateObject.body.data.devices
             newLocalCache ==
                 omit(cache, difference(keys(cache), keys(upstreamDevices)))
         IN  [deviceTypeKey \in DOMAIN newLocalCache \cup DOMAIN upstreamDevices |->
                 IF has(upstreamDevices, deviceTypeKey)
                 THEN balanceBucket(newLocalCache, upstreamDevices[deviceTypeKey],
                                    deviceTypeKey)
                 ELSE newLocalCache[deviceTypeKey]]

\* Mutant: an update without a structure container resets the cache.
_balanceStructureCacheAgainstUpstream_ClearsWhenAbsent(cache, updateObject) ==
    IF ~hasContainer(updateObject, "structures") THEN EmptyObject
    ELSE IF isEmpty(updateObject.body.data.structures) THEN EmptyObject
    ELSE LET upstreamStructures == updateObject.body.data.structures
             newLocalStructureCache ==
                 omit(cache, difference(keys(cache), keys(upstreamStructures)))
         IN  merge(newLocalStructureCache, upstreamStructures)

\* The value of localStructureCache after _balanceStructureCacheAgainstUpstream.
_balanceStructureCacheAgainstUpstream(cache, updateObject) ==
    IF ~hasContainer(updateObject, "structures") THEN cache
    ELSE IF isEmpty(updateObject.body.data.structures) THEN EmptyObject
    ELSE LET upstreamStructures == updateObject.body.data.structures
             newLocalStructureCache ==
                 omit(cache, difference(keys(cache), keys(upstreamStructures)))
         IN  merge(newLocalStructureCache, upstreamStructures)

\* The keys of localDeviceCache, in insertion order, after
\* _balanceDeviceCacheAgainstUpstream: omit keeps the surviving keys in
\* place and the forEach appends the new ones as upstream lists them.
balanceKeyOrder(order, updateObject, upstreamKeys) ==
    IF ~hasContainer(updateObject, "devices") THEN order
    ELSE IF isEmpty(updateObject.body.data.devices) THEN <<>>
    ELSE LET upstreamDevices == updateObject.body.data.devices
             kept == SelectSeq(order, LAMBDA t : has(upstreamDevices, t))
         IN  kept \o SelectSeq(upstreamKeys,
                        LAMBDA t : \A i \in DOMAIN kept : kept[i] # t)

\* The listeners registered for an event.
Subscribed(event) == {k \in DOMAIN listeners : listeners[k].event = event}

\* The event handleNetworkManagerStreamUpdate emits in the current state.
emittedEvent == IF hydrated = FALSE THEN "hydrated" ELSE "update"

\* this.localDeviceCache = newLocalCache: the objects handed out earlier
\* are no longer the cache.
unaliased(objects) ==
    [k \in DOMAIN objects |-> [objects[k] EXCEPT !.alias = FALSE]]

RECURSIVE emitTo(_, _, _, _)
emitTo(objects, via, subscribers, payload) ==
    IF subscribers = {} THEN objects
    ELSE LET k == MinOf(subscribers)
         IN  emitTo(Append(objects, [via |-> via, listener |-> listeners[k].fn,
                                     alias |-> FALSE, value |-> payload]),
                    via, subscribers \ {k}, payload)

\* _emitHydratedEvent / _emitUpdateEvent: every listener of the event is
\* called with { devices: cloneDeep(...), structures: cloneDeep(...) }.
emit(objects, event, devices, structures) ==
    emitTo(objects, event, Subscribed(event),
           [devices |-> devices, structures |-> structures])

\* Mutant: the hydrated flag is never set, so every call emits hydrated.
handleNetworkManagerStreamUpdate_NeverHydrated(updateObject) ==
    /\ localDeviceCache' =
           _balanceDeviceCacheAgainstUpstream(localDeviceCache, updateObject)
    /\ localStructureCache' =
           _balanceStructureCacheAgainstUpstream(localStructureCache, updateObject)
    /\ hydrated' = hydrated
    /\ hydratedEmissions' = hydratedEmissions + 1
    /\ updateEmissions' = updateEmissions
    /\ reconciles' = reconciles + 1

\* handleNetworkManagerStreamUpdate: balance both caches, then emit hydrated
\* (first call) or update (every later call).
handleNetworkManagerStreamUpdate(updateObject) ==
    /\ localDeviceCache' =
           _balanceDeviceCacheAgainstUpstream(localDeviceCache, updateObject)
    /\ localStructureCache' =
           _balanceStructureCacheAgainstUpstream(localStructureCache, updateObject)
    /\ hydrated' = TRUE
    /\ hydratedEmissions' = IF hydrated = FALSE
                            THEN hydratedEmissions + 1 ELSE hydratedEmissions
    /\ updateEmissions' = IF hydrated = FALSE
                          THEN updateEmissions ELSE updateEmissions + 1
    /\ reconciles' = reconciles + 1

(***************************************************************************)
(* NestRepresentationManager: listeners and queries.  An object handed to  *)
(* a caller is recorded with the way it was handed (via), the callback it  *)
(* went to (NoCallback for a return value), its value, and alias: whether  *)
(* it is the very object this.localDeviceCache refers to.                  *)
(***************************************************************************)
NullRecord == [null |-> TRUE]      \* null where an object may be returned

NoCallback == "none"

\* addHydratedListener: the callback is registered and, when the manager is
\* hydrated, called at once with this.localDeviceCache itself.  on() adds a
\* registration whether or not the callback already has one.
addHydratedListener(callbackFn) ==
    /\ Len(listeners) < MaxListeners
    /\ hydrated => Len(handed) < MaxHanded
    /\ listeners' = Append(listeners,
           [event |-> "hydrated", fn |-> callbackFn,
            calls |-> IF hydrated THEN 1 ELSE 0])
    /\ handed' = IF hydrated
                  THEN Append(handed, [via |-> "addHydratedListener",
                                       listener |-> callbackFn,
                                       alias |-> TRUE,
                                       value |-> localDeviceCache])
                  ELSE handed
    /\ last' = [op |-> "addHydratedListener", fn |-> callbackFn,
                 hydrated |-> hydrated]
    /\ UNCHANGED <<localDeviceCache, localStructureCache, hydrated,
                   hydratedEmissions, updateEmissions, reconciles,
                   deviceTypeOrder>>

addUpdateListener(callbackFn) ==
    /\ Len(listeners) < MaxListeners
    /\ listeners' = Append(listeners,
           [event |-> "update", fn |-> callbackFn, calls |-> 0])
    /\ last' = [op |-> "addUpdateListener", fn |-> callbackFn]
    /\ UNCHANGED <<localDeviceCache, localStructureCache, hydrated,
                   hydratedEmissions, updateEmissions, reconciles,
                   deviceTypeOrder, handed>>

\* The registrations of a callback for an event.
Registrations(event, callbackFn) ==
    {k \in DOMAIN listeners :
        listeners[k].event = event /\ listeners[k].fn = callbackFn}

\* Mutant: removeListener drops every registration of the callback.
removeListener_All(event, callbackFn) ==
    SelectSeq(listeners, LAMBDA l : ~(l.event = event /\ l.fn = callbackFn))

\* EventEmitter.removeListener: the most recently added registration of the
\* callback is dropped, if it has one.
removeListener(event, callbackFn) ==
    IF Registrations(event, callbackFn) = {} THEN listeners
    ELSE LET k == MaxOf(Registrations(event, callbackFn))
         IN  SubSeq(listeners, 1, k - 1) \o SubSeq(listeners, k + 1, Len(listeners))

removeHydratedListener(callbackFn) ==
    /\ listeners' = removeListener("hydrated", callbackFn)
    /\ last' = [op |-> "removeHydratedListener", fn |-> callbackFn]
    /\ UNCHANGED <<localDeviceCache, localStructureCache, hydrated,
                   hydratedEmissions, updateEmissions, reconciles,
                   deviceTypeOrder, handed>>

removeUpdateListener(callbackFn) ==
    /\ listeners' = removeListener("update", callbackFn)
    /\ last' = [op |-> "removeUpdateListener", fn |-> callbackFn]
    /\ UNCHANGED <<localDeviceCache, localStructureCache, hydrated,
                   hydratedEmissions, updateEmissions, reconciles,
                   deviceTypeOrder, handed>>

\* getAllDevices: cloneDeep(this.localDeviceCache).
getAllDevices ==
    /\ Len(handed) < MaxHanded
    /\ handed' = Append(handed, [via |-> "getAllDevices", listener |-> NoCallback,
                                  alias |-> FALSE, value |-> localDeviceCache])
    /\ last' = [op |-> "getAllDevices"]
    /\ UNCHANGED <<localDeviceCache, localStructureCache, hydrated,
                   hydratedEmissions, updateEmissions, reconciles,
                   deviceTypeOrder, listeners>>

\* getAllStructures: cloneDeep(this.localStructureCache).
getAllStructures ==
    /\ Len(handed) < MaxHanded
    /\ handed' = Append(handed, [via |-> "getAllStructures", listener |-> NoCallback,
                                  alias |-> FALSE, value |-> localStructureCache])
    /\ last' = [op |-> "getAllStructures"]
    /\ UNCHANGED <<localDeviceCache, localStructureCache, hydrated,
                   hydratedEmissions, updateEmissions, reconciles,
                   deviceTypeOrder, listeners>>

\* getDeviceById: the callback given to forEach returns false, which ends
\* the iteration, so only the first device type of the cache is searched.
getDeviceById(cache, order, stringId) ==
    IF order = <<>> THEN NullRecord
    ELSE LET deviceTypeMap == cache[order[1]]
             isInMap == {k \in DOMAIN deviceTypeMap :
                            /\ has(deviceTypeMap[k], "device_id")
                            /\ deviceTypeMap[k].device_id = stringId}
         IN  IF isInMap = {} THEN NullRecord
             ELSE deviceTypeMap[CHOOSE k \in isInMap : TRUE]

GetDeviceById(stringId) ==
    /\ last' = [op |-> "getDeviceById", stringId |-> stringId,
                 returns |-> getDeviceById(localDeviceCache, deviceTypeOrder,
                                           stringId)]
    /\ UNCHANGED rmVars

\* What getDeviceByName returns: null, one record, or an array of records.
Returned(results) ==
    IF Len(results) = 0 THEN [shape |-> "null", items |-> <<>>]
    ELSE IF Len(results) = 1 THEN [shape |-> "record", items |-> results]
    ELSE [shape |-> "array", items |-> results]

\* getDeviceByName: for every device type of the cache, in order, find()
\* gives the first device of that name among the values of the bucket
\* (idOrder is the order in which buckets list their device ids), and that
\* one record is pushed to the results.
RECURSIVE getDeviceByNameFrom(_, _, _, _)
getDeviceByNameFrom(cache, order, idOrder, stringName) ==
    IF order = <<>> THEN <<>>
    ELSE LET deviceTypeMap == cache[order[1]]
             mapValues == SelectSeq(idOrder, LAMBDA k : k \in DOMAIN deviceTypeMap)
             named == SelectSeq(mapValues,
                          LAMBDA k : /\ has(deviceTypeMap[k], "name")
                                     /\ deviceTypeMap[k].name = stringName)
             rest == getDeviceByNameFrom(cache, Tail(order), idOrder, stringName)
         IN  IF named = <<>> THEN rest
             ELSE <<deviceTypeMap[named[1]]>> \o rest

getDeviceByName(cache, order, idOrder, stringName) ==
    Returned(getDeviceByNameFrom(cache, order, idOrder, stringName))

GetDeviceByName(stringName, idOrder) ==
    /\ last' = [op |-> "getDeviceByName", stringName |-> stringName,
                 idOrder |-> idOrder,
                 returns |-> getDeviceByName(localDeviceCache, deviceTypeOrder,
                                             idOrder, stringName)]
    /\ UNCHANGED rmVars

\* obj.hacked = {}: what a caller's assignment makes of an object.
assigned(obj) ==
    [k \in DOMAIN obj \cup {"hacked"} |->
        IF k = "hacked" THEN EmptyObject ELSE obj[k]]

\* A caller assigns a property on the devices object it was handed, once.
\* Every reference to that object sees the assignment; a copy is an object
\* of its own.
CallerAssigns(k) ==
    LET payload == handed[k].via \in {"hydrated", "update"}
        target == IF payload THEN handed[k].value.devices ELSE handed[k].value
        written(entry) ==
            IF payload THEN [entry EXCEPT !.value.devices = assigned(@)]
            ELSE [entry EXCEPT !.value = assigned(@)]
    IN  /\ handed[k].via # "getAllStructures"
        /\ ~has(target, "hacked")
        /\ handed' = [j \in DOMAIN handed |->
               IF j = k \/ (handed[k].alias /\ handed[j].alias)
               THEN written(handed[j]) ELSE handed[j]]
        /\ localDeviceCache' = IF handed[k].alias THEN assigned(localDeviceCache)
                                ELSE localDeviceCache
        /\ deviceTypeOrder' = IF handed[k].alias
                               THEN Append(deviceTypeOrder, "hacked")
                               ELSE deviceTypeOrder
        /\ last' = [op |-> "callerAssigns", object |-> k,
                     before |-> [devices |-> localDeviceCache,
                                 structures |-> localStructureCache]]
        /\ UNCHANGED <<localStructureCache, hydrated, hydratedEmissions,
                       updateEmissions, reconciles, listeners>>

(***************************************************************************)
(* The reconciliation model: a representation manager handling a bounded   *)
(* number of put events drawn from UpdateObjects.                          *)
(***************************************************************************)
DeviceIds == {"A", "B"}

\* Upstream device records: they carry no _deviceType of their own.
UpstreamRecords == { [name |-> "den", temp |-> "20"], [name |-> "hall"] }

Maps(ids, records) ==
    UNION {[s -> records] : s \in SUBSET ids}

ThermostatBuckets == Maps(DeviceIds, UpstreamRecords)

CameraBuckets == Maps({"A"}, {[name |-> "den", temp |-> "20"]})

UpstreamDeviceContainers ==
    { EmptyObject }
    \cup {[thermostats |-> b] : b \in ThermostatBuckets}
    \cup {[cameras |-> b] : b \in CameraBuckets}
    \cup {[thermostats |-> b, cameras |-> c] :
              b \in ThermostatBuckets, c \in CameraBuckets}

UpstreamStructureContainers ==
    { EmptyObject,
      [S1 |-> [name |-> "home", away |-> "no"]],
      [S1 |-> [name |-> "work"]],
      [S2 |-> [name |-> "work"]] }

UpdateData ==
    { EmptyObject }
    \cup {[devices |-> d] : d \in UpstreamDeviceContainers}
    \cup {[structures |-> s] : s \in UpstreamStructureContainers}
    \cup {[devices |-> d, structures |-> s] :
              d \in UpstreamDeviceContainers, s \in UpstreamStructureContainers}

UpdateObjects ==
    {[event |-> "put", body |-> [path |-> "/"]]}
    \cup {[event |-> "put", body |-> [path |-> "/", data |-> d]] : d \in UpdateData}

ReconInit ==
    /\ NMInit
    /\ RMInit
    /\ last = NoCall
    /\ original = ""
    /\ wire = <<>>

\* The device types in the order the model's upstream objects list them.
DeviceTypes == <<"thermostats", "cameras">>

\* The stream update handler as the listener of serviceStreamDataUpdate,
\* for an update whose devices container lists its keys as upstreamKeys.
ReconcileInOrder(updateObject, upstreamKeys) ==
    /\ reconciles < MaxReconciles
    /\ Len(handed) + Cardinality(Subscribed(emittedEvent)) <= MaxHanded
    /\ handleNetworkManagerStreamUpdate(updateObject)
    /\ deviceTypeOrder' = balanceKeyOrder(deviceTypeOrder, updateObject, upstreamKeys)
    /\ listeners' = [k \in DOMAIN listeners |->
           IF k \in Subscribed(emittedEvent)
           THEN [listeners[k] EXCEPT !.calls = @ + 1] ELSE listeners[k]]
    /\ handed' = emit(IF hasContainer(updateObject, "devices")
                      THEN unaliased(handed) ELSE handed,
                      emittedEvent, localDeviceCache', localStructureCache')
    /\ last' = [op |-> "reconcile", update |-> updateObject,
                 before |-> [devices |-> localDeviceCache,
                             structures |-> localStructureCache]]
    /\ UNCHANGED <<nmVars, harnessVars>>

Reconcile(updateObject) ==
    ReconcileInOrder(updateObject,
        IF hasContainer(updateObject, "devices")
        THEN SelectSeq(DeviceTypes,
                 LAMBDA t : t \in DOMAIN updateObject.body.data.devices)
        ELSE <<>>)

ReconNext == \E updateObject \in UpdateObjects : Reconcile(updateObject)

SpecRecon == ReconInit /\ [][ReconNext]_vars

\* C4: the first reconcile call emits hydrated once and update never; every
\* later call emits update once and hydrated never; hydrated stays true.
C4_HydratedOnceThenUpdates ==
    /\ reconciles = 0 =>
          hydrated = FALSE /\ hydratedEmissions = 0 /\ updateEmissions = 0
    /\ reconciles >= 1 =>
          hydrated = TRUE /\ hydratedEmissions = 1
              /\ updateEmissions = reconciles - 1

C4_Witness == reconciles >= 2 /\ updateEmissions >= 1 /\ hydratedEmissions = 1

\* C5: a device-type key exists in the device cache only while its bucket
\* holds at least one device; an upstream bucket that is present but empty
\* removes the key.
C5_BucketKeyIffNonEmpty ==
    \A deviceTypeKey \in DOMAIN localDeviceCache :
        localDeviceCache[deviceTypeKey] # EmptyObject

\* The devices container of the last reconciled update, when it was balanced
\* bucket by bucket (present and not empty).
LastBalanced ==
    /\ last.op = "reconcile"
    /\ hasContainer(last.update, "devices")
    /\ ~isEmpty(last.update.body.data.devices)

\* C6: for a device id cached and present upstream the record takes every
\* upstream field and keeps every local field absent upstream; cached ids
\* absent from the upstream bucket are removed.
C6_UpstreamWinsPerField ==
    LastBalanced =>
        \A t \in DOMAIN last.update.body.data.devices :
            LET upstream == last.update.body.data.devices[t]
                local == IF t \in DOMAIN last.before.devices
                         THEN last.before.devices[t] ELSE EmptyObject
                now == localDeviceCache[t]
            IN  /\ \A id \in DOMAIN local \cap DOMAIN upstream :
                       /\ id \in DOMAIN now
                       /\ \A f \in DOMAIN upstream[id] : now[id][f] = upstream[id][f]
                       /\ \A f \in DOMAIN local[id] \ DOMAIN upstream[id] :
                              f \in DOMAIN now[id] /\ now[id][f] = local[id][f]
                /\ \A id \in DOMAIN local \ DOMAIN upstream : id \notin DOMAIN now

\* A merge that changed one field and kept another, beside a removed device.
C6_Witness ==
    /\ LastBalanced
    /\ "thermostats" \in DOMAIN last.before.devices
    /\ "thermostats" \in DOMAIN last.update.body.data.devices
    /\ DOMAIN last.before.devices["thermostats"] = {"A", "B"}
    /\ DOMAIN last.update.body.data.devices["thermostats"] = {"A"}
    /\ last.before.devices["thermostats"]["A"].name = "den"
    /\ localDeviceCache["thermostats"]["A"].name = "hall"
    /\ localDeviceCache["thermostats"]["A"].temp = "20"

\* C7: reconciling an update whose devices container is present but empty
\* leaves the device cache empty, whatever it held.
C7_EmptyContainerClearsCache ==
    ( /\ last.op = "reconcile"
      /\ hasContainer(last.update, "devices")
      /\ isEmpty(last.update.body.data.devices) )
        => localDeviceCache = EmptyObject

C7_Witness ==
    /\ last.op = "reconcile"
    /\ hasContainer(last.update, "devices")
    /\ isEmpty(last.update.body.data.devices)
    /\ DOMAIN last.before.devices = {"thermostats", "cameras"}
    /\ localDeviceCache = EmptyObject

\* C8: every cached device record carries _deviceType equal to the key of
\* the bucket holding it (upstream records carry no _deviceType).
C8_DeviceTypeStamp ==
    \A t \in DOMAIN localDeviceCache :
        \A id \in DOMAIN localDeviceCache[t] :
            /\ "_deviceType" \in DOMAIN localDeviceCache[t][id]
            /\ localDeviceCache[t][id]["_deviceType"] = t

\* A record inserted by one update and merged by a later one, still stamped.
C8_Witness ==
    /\ reconciles >= 2
    /\ "thermostats" \in DOMAIN localDeviceCache
    /\ "A" \in DOMAIN localDeviceCache["thermostats"]
    /\ localDeviceCache["thermostats"]["A"] =
           [name |-> "hall", temp |-> "20", _deviceType |-> "thermostats"]
    /\ "cameras" \in DOMAIN localDeviceCache
    /\ "A" \in DOMAIN localDeviceCache["cameras"]
    /\ localDeviceCache["cameras"]["A"]["_deviceType"] = "cameras"

(***************************************************************************)
(* NestNetworkManager: tokens, the service stream and PUT requests.        *)
(*                                                                         *)
(* A request object is a record: kind ("stream" or "put"), the url it was  *)
(* made with, the promise its callbacks settle, state ("open" until its    *)
(* callback has run, then "done"), listening (the bound 'data' listener is *)
(* attached), retry (made by a repeatRequest) and, for a PUT, the update   *)
(* it carries.  A promise settles at most once.                            *)
(***************************************************************************)
RECURSIVE JoinWith(_, _)
JoinWith(parts, sep) ==
    IF Len(parts) = 0 THEN ""
    ELSE IF Len(parts) = 1 THEN Head(parts)
    ELSE Head(parts) \o sep \o JoinWith(Tail(parts), sep)

Pending == [state |-> "pending", value |-> [none |-> TRUE]]

Settle(ps, p, how, value) ==
    IF ps[p].state = "pending"
    THEN [ps EXCEPT ![p] = [state |-> how, value |-> value]]
    ELSE ps

\* [ "https://", redirectUrl.split("/")[2] ].join("")
_cacheRedirectUrl(redirectUrl) ==
    LET parts == Split(redirectUrl, "/")
    IN  "https://" \o (IF Len(parts) >= 3 THEN parts[3] ELSE "")

\* isNull(this.cachedRedirectUrl) ? this.apiUrl : this.cachedRedirectUrl
targetUrl(cache) == IF cache = Null THEN apiUrl ELSE cache

generateSubscribeUrl(baseUrl) == baseUrl

generateDeviceUpdatePutUrl(baseUrl, deviceId, deviceType, keyToUpdate) ==
    JoinWith(<<baseUrl, "devices", deviceType, deviceId, keyToUpdate>>, "/")

NoUpdate == [deviceData |-> EmptyObject, keyToUpdate |-> "", valueToUpdateWith |-> ""]

\* The request made by _createServiceStreamRequest / _setServiceStream, with
\* the data listener added.
_createServiceStreamRequest(cache, promise, retry) ==
    [kind |-> "stream", url |-> generateSubscribeUrl(targetUrl(cache)),
     promise |-> promise, state |-> "open",
     listening |-> TRUE, retry |-> retry, update |-> NoUpdate]

\* Mutant: the PUT is always addressed to the default API root.
_createUpdateDeviceRequest_IgnoresCache(cache, update, promise, retry) ==
    [kind |-> "put",
     url |-> generateDeviceUpdatePutUrl(apiUrl, update.deviceData.device_id,
                 update.deviceData["_deviceType"], update.keyToUpdate),
     promise |-> promise, state |-> "open",
     listening |-> FALSE, retry |-> retry, update |-> update]

\* The request made by _createUpdateDeviceRequest / _putRequest.
_createUpdateDeviceRequest(cache, update, promise, retry) ==
    [kind |-> "put",
     url |-> generateDeviceUpdatePutUrl(targetUrl(cache), update.deviceData.device_id,
                 update.deviceData["_deviceType"], update.keyToUpdate),
     promise |-> promise, state |-> "open",
     listening |-> FALSE, retry |-> retry, update |-> update]

reservedErrorCodes == {307, 400, 404, 500, 401, 403, 503, 429}

\* Mutant: every reserved status is reported as an internal API error.
rejection_Unclassified(response) == [error |-> "API_INTERNAL_ERROR"]

\* What the handler of a reserved status other than 307 rejects with.
rejection(response) ==
    CASE response.statusCode = 429 -> [error |-> "UNDER_RATE_LIMITS"]
      [] response.statusCode = 404 -> [error |-> "PATH_NOT_FOUND"]
      [] response.statusCode = 500 -> [error |-> "API_INTERNAL_ERROR"]
      [] response.statusCode = 401 -> [error |-> "AUTH_ERROR"]
      [] response.statusCode = 403 -> [error |-> "FORBIDDEN"]
      [] response.statusCode = 503 -> [error |-> "SERVICE_UNAVAILABLE"]
      [] OTHER ->
            IF JSONParse(response.body) # JsFalse
            THEN [parsed |-> JSONParse(response.body)]
            ELSE [unableToParseAPIError |-> TRUE, rawError |-> response.body]

\* Mutant: _handleForbidden removes the token as _handleAuthError does.
_handleReserved_ForbiddenClearsToken(response, promise) ==
    [accessToken |-> IF response.statusCode \in {401, 403} THEN Null ELSE accessToken,
     cachedRedirectUrl |->
         IF response.statusCode = 307
         THEN _cacheRedirectUrl(response.location) ELSE cachedRedirectUrl,
     promises |->
         IF response.statusCode = 307 THEN promises
         ELSE Settle(promises, promise, "rejected", rejection(response)),
     repeatRequest |-> response.statusCode = 307]

\* Mutant: _handleAuthError rejects but leaves the token in place.
_handleReserved_KeepsToken(response, promise) ==
    [accessToken |-> accessToken,
     cachedRedirectUrl |->
         IF response.statusCode = 307
         THEN _cacheRedirectUrl(response.location) ELSE cachedRedirectUrl,
     promises |->
         IF response.statusCode = 307 THEN promises
         ELSE Settle(promises, promise, "rejected", rejection(response)),
     repeatRequest |-> response.statusCode = 307]

\* this.reservedErrorCodes[statusCode].call(this, response, repeatRequest,
\* resolve, reject): the token, redirect cache and promises it leaves, and
\* whether it called repeatRequest.
_handleReserved(response, promise) ==
    [accessToken |-> IF response.statusCode = 401 THEN Null ELSE accessToken,
     cachedRedirectUrl |->
         IF response.statusCode = 307
         THEN _cacheRedirectUrl(response.location) ELSE cachedRedirectUrl,
     promises |->
         IF response.statusCode = 307 THEN promises
         ELSE Settle(promises, promise, "rejected", rejection(response)),
     repeatRequest |-> response.statusCode = 307]

\* setToken with a string.
setToken(token) ==
    /\ accessToken' = token
    /\ last' = [op |-> "setToken", token |-> token, returns |-> "this"]
    /\ UNCHANGED <<serviceStream, cachedRedirectUrl,
                   chunkedPutMessagesAwaitingCompletion, requests, promises,
                   dataUpdates, closedEvents, warnings, uncaught, delivered>>

\* Mutant: a rejected argument also wipes the token held.
setTokenNotString_WipesToken ==
    /\ Len(uncaught) < MaxChunks
    /\ uncaught' = Append(uncaught, "TokenMustBeString")
    /\ accessToken' = Null
    /\ last' = [op |-> "setTokenNotString", token |-> accessToken]
    /\ UNCHANGED <<serviceStream, cachedRedirectUrl,
                   chunkedPutMessagesAwaitingCompletion, requests, promises,
                   dataUpdates, closedEvents, warnings, delivered>>

\* setToken with anything that is not a string: TokenMustBeString is thrown.
setTokenNotString ==
    /\ Len(uncaught) < MaxChunks
    /\ uncaught' = Append(uncaught, "TokenMustBeString")
    /\ last' = [op |-> "setTokenNotString", token |-> accessToken]
    /\ UNCHANGED <<accessToken, serviceStream, cachedRedirectUrl,
                   chunkedPutMessagesAwaitingCompletion, requests, promises,
                   dataUpdates, closedEvents, warnings, delivered>>

removeToken ==
    /\ accessToken' = Null
    /\ last' = [op |-> "removeToken"]
    /\ UNCHANGED <<serviceStream, cachedRedirectUrl,
                   chunkedPutMessagesAwaitingCompletion, requests, promises,
                   dataUpdates, closedEvents, warnings, uncaught, delivered>>

\* Mutant: a stream is started whether or not one is held.
streamServiceChanges_Unguarded ==
    /\ Len(promises) < MaxPromises
    /\ Len(requests) < MaxRequests
    /\ promises' = Append(promises, Pending)
    /\ requests' = Append(requests,
           _createServiceStreamRequest(cachedRedirectUrl, Len(promises) + 1, FALSE))
    /\ serviceStream' = Len(requests) + 1
    /\ last' = [op |-> "streamServiceChanges", held |-> serviceStream,
                promise |-> Len(promises) + 1, made |-> 1]
    /\ UNCHANGED <<accessToken, cachedRedirectUrl,
                   chunkedPutMessagesAwaitingCompletion, dataUpdates,
                   closedEvents, warnings, uncaught, delivered>>

\* streamServiceChanges: rejected with the held stream, or a stream request
\* is made and held.
streamServiceChanges ==
    /\ Len(promises) < MaxPromises
    /\ IF serviceStream # NoStream
       THEN /\ promises' = Append(promises,
                   [state |-> "rejected", value |-> [handle |-> serviceStream]])
            /\ UNCHANGED <<requests, serviceStream>>
       ELSE /\ Len(requests) < MaxRequests
            /\ promises' = Append(promises, Pending)
            /\ requests' = Append(requests,
                   _createServiceStreamRequest(cachedRedirectUrl,
                                               Len(promises) + 1, FALSE))
            /\ serviceStream' = Len(requests) + 1
    /\ last' = [op |-> "streamServiceChanges", held |-> serviceStream,
                promise |-> Len(promises) + 1,
                made |-> IF serviceStream # NoStream THEN 0 ELSE 1]
    /\ UNCHANGED <<accessToken, cachedRedirectUrl,
                   chunkedPutMessagesAwaitingCompletion, dataUpdates,
                   closedEvents, warnings, uncaught, delivered>>

\* A 'data' event on a stream request that carries the bound listener.
streamData(i, chunk) ==
    /\ delivered < MaxChunks
    /\ requests[i].kind = "stream"
    /\ requests[i].state = "open"
    /\ requests[i].listening
    /\ _determineStreamUpdateType(chunk)
    /\ delivered' = delivered + 1
    /\ last' = [op |-> "data", chunk |-> chunk, updates |-> Len(dataUpdates),
                token |-> accessToken, cache |-> cachedRedirectUrl,
                queue |-> chunkedPutMessagesAwaitingCompletion,
                warnings |-> warnings, stream |-> serviceStream,
                thrown |-> Len(uncaught)]
    /\ UNCHANGED <<serviceStream, requests, promises, closedEvents>>

\* Mutant: the stream is dropped without the serviceStreamClosed emission.
_cleanupServiceStream_Silent ==
    /\ serviceStream' = NoStream
    /\ closedEvents' = closedEvents

\* _cleanupServiceStream: the stream is dropped and serviceStreamClosed
\* emitted.
_cleanupServiceStream ==
    /\ serviceStream' = NoStream
    /\ closedEvents' = closedEvents + 1

\* Mutant: the callback leaves the data listener on the stream.
streamResponse_KeepsListener(i, response) ==
    LET unlistened == [requests EXCEPT ![i].state = "done"]
        h == _handleReserved(response, requests[i].promise)
    IN  /\ requests[i].kind = "stream"
        /\ requests[i].state = "open"
        /\ serviceStream # NoStream
        /\ IF response.error
           THEN /\ requests' = unlistened
                /\ uncaught' = Append(uncaught, "TypeError")
                /\ UNCHANGED <<accessToken, cachedRedirectUrl, promises,
                               serviceStream, closedEvents>>
           ELSE IF response.statusCode \in reservedErrorCodes
           THEN /\ accessToken' = h.accessToken
                /\ cachedRedirectUrl' = h.cachedRedirectUrl
                /\ promises' = h.promises
                /\ IF h.repeatRequest
                   THEN /\ Len(requests) < MaxRequests
                        /\ requests' = Append(unlistened,
                               _createServiceStreamRequest(h.cachedRedirectUrl,
                                   requests[i].promise, TRUE))
                        /\ serviceStream' = Len(requests) + 1
                   ELSE /\ requests' = unlistened
                        /\ UNCHANGED serviceStream
                /\ UNCHANGED <<uncaught, closedEvents>>
           ELSE /\ requests' = unlistened
                /\ promises' = Settle(promises, requests[i].promise, "resolved",
                                      [body |-> response.body])
                /\ _cleanupServiceStream
                /\ UNCHANGED <<accessToken, cachedRedirectUrl, uncaught>>
        /\ last' = [op |-> "streamResponse", request |-> i, response |-> response,
                    made |-> Len(requests') - Len(requests),
                    token |-> accessToken, cache |-> cachedRedirectUrl,
                    closed |-> closedEvents]
        /\ UNCHANGED <<chunkedPutMessagesAwaitingCompletion, dataUpdates,
                       warnings, delivered>>

\* The callback of stream request i (_setServiceStream).  The data listener
\* is removed from this.serviceStream; an error comes without a response,
\* so reading response.statusCode throws; a reserved status is handed to its
\* handler and nothing else is done; otherwise the promise is resolved and
\* the stream cleaned up.
streamResponse(i, response) ==
    LET unlistened == [requests EXCEPT ![i].state = "done",
                                       ![serviceStream].listening = FALSE]
        h == _handleReserved(response, requests[i].promise)
    IN  /\ requests[i].kind = "stream"
        /\ requests[i].state = "open"
        /\ serviceStream # NoStream
        /\ IF response.error
           THEN /\ requests' = unlistened
                /\ uncaught' = Append(uncaught, "TypeError")
                /\ UNCHANGED <<accessToken, cachedRedirectUrl, promises,
                               serviceStream, closedEvents>>
           ELSE IF response.statusCode \in reservedErrorCodes
           THEN /\ accessToken' = h.accessToken
                /\ cachedRedirectUrl' = h.cachedRedirectUrl
                /\ promises' = h.promises
                /\ IF h.repeatRequest
                   THEN /\ Len(requests) < MaxRequests
                        /\ requests' = Append(unlistened,
                               _createServiceStreamRequest(h.cachedRedirectUrl,
                                   requests[i].promise, TRUE))
                        /\ serviceStream' = Len(requests) + 1
                   ELSE /\ requests' = unlistened
                        /\ UNCHANGED serviceStream
                /\ UNCHANGED <<uncaught, closedEvents>>
           ELSE /\ requests' = unlistened
                /\ promises' = Settle(promises, requests[i].promise, "resolved",
                                      [body |-> response.body])
                /\ _cleanupServiceStream
                /\ UNCHANGED <<accessToken, cachedRedirectUrl, uncaught>>
        /\ last' = [op |-> "streamResponse", request |-> i, response |-> response,
                    made |-> Len(requests') - Len(requests),
                    token |-> accessToken, cache |-> cachedRedirectUrl,
                    closed |-> closedEvents]
        /\ UNCHANGED <<chunkedPutMessagesAwaitingCompletion, dataUpdates,
                       warnings, delivered>>

\* Mutant: a redirect is cached but the request is not repeated.
_handleRedirectPut_NoRepeat(i, response) ==
    /\ cachedRedirectUrl' = _cacheRedirectUrl(response.location)
    /\ requests' = [requests EXCEPT ![i].state = "done"]

\* Mutant: the retried PUT takes the data listener off the stream.
_handleRedirectPut_Unlistens(i, response) ==
    /\ Len(requests) < MaxRequests
    /\ cachedRedirectUrl' = _cacheRedirectUrl(response.location)
    /\ requests' = Append([k \in DOMAIN requests |->
                               IF k = i THEN [requests[k] EXCEPT !.state = "done"]
                               ELSE [requests[k] EXCEPT !.listening = FALSE]],
           _createUpdateDeviceRequest(_cacheRedirectUrl(response.location),
               requests[i].update, requests[i].promise, TRUE))

\* _handleRedirect for PUT request i: the redirect is cached and the bound
\* _createUpdateDeviceRequest called again.
_handleRedirectPut(i, response) ==
    /\ Len(requests) < MaxRequests
    /\ cachedRedirectUrl' = _cacheRedirectUrl(response.location)
    /\ requests' = Append([requests EXCEPT ![i].state = "done"],
           _createUpdateDeviceRequest(_cacheRedirectUrl(response.location),
               requests[i].update, requests[i].promise, TRUE))

\* updateDevice: a promise and a PUT request.
updateDevice(update) ==
    /\ Len(promises) < MaxPromises
    /\ Len(requests) < MaxRequests
    /\ promises' = Append(promises, Pending)
    /\ requests' = Append(requests,
           _createUpdateDeviceRequest(cachedRedirectUrl, update,
                                      Len(promises) + 1, FALSE))
    /\ last' = [op |-> "updateDevice", promise |-> Len(promises) + 1, made |-> 1]
    /\ UNCHANGED <<accessToken, serviceStream, cachedRedirectUrl,
                   chunkedPutMessagesAwaitingCompletion, dataUpdates,
                   closedEvents, warnings, uncaught, delivered>>

\* The callback of PUT request i (_putRequest): as for the stream, an error
\* comes without a response and reading response.statusCode throws.
putResponse(i, response) ==
    LET done == [requests EXCEPT ![i].state = "done"]
        h == _handleReserved(response, requests[i].promise)
    IN  /\ requests[i].kind = "put"
        /\ requests[i].state = "open"
        /\ IF response.error
           THEN /\ requests' = done
                /\ uncaught' = Append(uncaught, "TypeError")
                /\ UNCHANGED <<accessToken, cachedRedirectUrl, promises>>
           ELSE IF response.statusCode \in reservedErrorCodes
           THEN /\ accessToken' = h.accessToken
                /\ promises' = h.promises
                /\ IF h.repeatRequest
                   THEN _handleRedirectPut(i, response)
                   ELSE requests' = done /\ UNCHANGED cachedRedirectUrl
                /\ UNCHANGED uncaught
           ELSE /\ requests' = done
                /\ promises' = Settle(promises, requests[i].promise, "resolved",
                                      [body |-> response.body])
                /\ UNCHANGED <<accessToken, cachedRedirectUrl, uncaught>>
        /\ last' = [op |-> "putResponse", request |-> i, response |-> response,
                    made |-> Len(requests') - Len(requests),
                    token |-> accessToken, cache |-> cachedRedirectUrl]
        /\ UNCHANGED <<serviceStream, chunkedPutMessagesAwaitingCompletion,
                       dataUpdates, closedEvents, warnings, delivered>>

\* parsedBody[key] for a parsed object whose property, if it has it, holds a
\* string: the string, or undefined.
property(parsed, key) ==
    LET opening == "\"" \o key \o "\":\""
        i == IndexOf(parsed, opening)
        rest == SubSeq(parsed, i + Len(opening), Len(parsed))
    IN  IF i = 0 THEN [isString |-> FALSE, value |-> "undefined"]
        ELSE [isString |-> TRUE,
              value |-> SubSeq(rest, 1, IndexOf(rest, "\"") - 1)]

\* doOauth: a promise and a POST to the token endpoint.
doOauth ==
    /\ Len(promises) < MaxPromises
    /\ Len(requests) < MaxRequests
    /\ promises' = Append(promises, Pending)
    /\ requests' = Append(requests,
           [kind |-> "oauth",
            url |-> "https://api.home.nest.com/oauth2/access_token",
            promise |-> Len(promises) + 1, state |-> "open",
            listening |-> FALSE, retry |-> FALSE, update |-> NoUpdate])
    /\ last' = [op |-> "doOauth", promise |-> Len(promises) + 1, made |-> 1]
    /\ UNCHANGED <<accessToken, serviceStream, cachedRedirectUrl,
                   chunkedPutMessagesAwaitingCompletion, dataUpdates,
                   closedEvents, warnings, uncaught, delivered>>

\* Mutant: the token of the answer is resolved with but not stored.
doOauthCallback_NoStore(response) ==
    LET parsedBody == JSONParse(response.body)
        access_token == property(parsedBody, "access_token")
    IN  IF response.error
        THEN [accessToken |-> accessToken, thrown |-> "none",
              how |-> "rejected", value |-> [error |-> "connection"]]
        ELSE IF parsedBody = JsFalse
        THEN [accessToken |-> accessToken, thrown |-> "SyntaxError",
              how |-> "pending", value |-> [none |-> TRUE]]
        ELSE IF ~access_token.isString
        THEN [accessToken |-> accessToken, thrown |-> "TokenMustBeString",
              how |-> "pending", value |-> [none |-> TRUE]]
        ELSE [accessToken |-> accessToken, thrown |-> "none",
              how |-> "resolved", value |-> [token |-> access_token.value]]

\* The callback of the token request: reject(error) on an error; otherwise
\* JSON.parse(body), which may throw, setToken(parsedBody.access_token),
\* which throws unless that is a string, and resolve({token}).
doOauthCallback(response) ==
    LET parsedBody == JSONParse(response.body)
        access_token == property(parsedBody, "access_token")
    IN  IF response.error
        THEN [accessToken |-> accessToken, thrown |-> "none",
              how |-> "rejected", value |-> [error |-> "connection"]]
        ELSE IF parsedBody = JsFalse
        THEN [accessToken |-> accessToken, thrown |-> "SyntaxError",
              how |-> "pending", value |-> [none |-> TRUE]]
        ELSE IF ~access_token.isString
        THEN [accessToken |-> accessToken, thrown |-> "TokenMustBeString",
              how |-> "pending", value |-> [none |-> TRUE]]
        ELSE [accessToken |-> access_token.value, thrown |-> "none",
              how |-> "resolved", value |-> [token |-> access_token.value]]

oauthResponse(i, response) ==
    LET r == doOauthCallback(response)
    IN  /\ requests[i].kind = "oauth"
        /\ requests[i].state = "open"
        /\ requests' = [requests EXCEPT ![i].state = "done"]
        /\ accessToken' = r.accessToken
        /\ promises' = IF r.how = "pending" THEN promises
                        ELSE Settle(promises, requests[i].promise, r.how, r.value)
        /\ uncaught' = IF r.thrown = "none" THEN uncaught
                        ELSE Append(uncaught, r.thrown)
        /\ last' = [op |-> "oauthResponse", request |-> i, response |-> response,
                    made |-> 0, token |-> accessToken]
        /\ UNCHANGED <<serviceStream, cachedRedirectUrl,
                       chunkedPutMessagesAwaitingCompletion, dataUpdates,
                       closedEvents, warnings, delivered>>

(***************************************************************************)
(* The transport model: callers set tokens, start streams and update       *)
(* devices; the server answers each open request and sends data chunks.    *)
(***************************************************************************)
Tokens == {"tokA"}

Updates ==
    { [deviceData |-> [device_id |-> "A", _deviceType |-> "thermostats"],
       keyToUpdate |-> "target", valueToUpdateWith |-> "21"] }

Locations == { "https://host1.nest.com/devices", "http://host2.nest.com" }

Response(e, code, loc, b) ==
    [error |-> e, statusCode |-> code, location |-> loc, body |-> b]

Responses ==
    { Response(TRUE, 0, "", ""), Response(FALSE, 200, "", "ok") }
    \cup {Response(FALSE, 307, l, "") : l \in Locations}
    \cup {Response(FALSE, c, "", "") : c \in {404, 500, 401, 403, 503, 429}}
    \cup {Response(FALSE, 400, "", b) : b \in {"{\"error\":1}", "Bad"}}

\* The answers the transport model draws from: the connection error, the
\* normal end, the redirects and two of the reserved error statuses.
TransportResponses == {r \in Responses : r.statusCode \in {0, 200, 307, 401, 404}}

StreamChunks ==
    { "event: put\ndata: {\"a\":1}",
      "event: put\ndata: {\"a\":",
      "1}",
      "event: keep-alive\ndata: null",
      "event: auth_revoked\ndata: null" }

TransportInit ==
    /\ NMInit
    /\ RMInit
    /\ last = NoCall
    /\ original = ""
    /\ wire = <<>>

TransportNext ==
    \/ \E t \in Tokens : setToken(t) /\ UNCHANGED <<autoReinitStream, harnessVars, rmVars>>
    \/ removeToken /\ UNCHANGED <<autoReinitStream, harnessVars, rmVars>>
    \/ streamServiceChanges /\ UNCHANGED <<autoReinitStream, harnessVars, rmVars>>
    \/ \E u \in Updates : updateDevice(u) /\ UNCHANGED <<autoReinitStream, harnessVars, rmVars>>
    \/ \E i \in DOMAIN requests, r \in TransportResponses :
           streamResponse(i, r) /\ UNCHANGED <<autoReinitStream, harnessVars, rmVars>>
    \/ \E i \in DOMAIN requests, r \in TransportResponses :
           putResponse(i, r) /\ UNCHANGED <<autoReinitStream, harnessVars, rmVars>>

SpecTransport == TransportInit /\ [][TransportNext]_vars

OpenStreams ==
    {i \in DOMAIN requests : requests[i].kind = "stream" /\ requests[i].state = "open"}

\* C2: at most one stream connection is live at any time, and
\* streamServiceChanges called while a stream is held rejects its promise
\* with the held stream, makes no request and leaves the held stream, the
\* request objects and their data listeners as they were.
C2_SecondStartRejected ==
    /\ [](Cardinality(OpenStreams) <= 1)
    /\ [][ (last'.op = "streamServiceChanges" /\ serviceStream # NoStream) =>
              /\ promises' = Append(promises,
                     [state |-> "rejected", value |-> [handle |-> serviceStream]])
              /\ requests' = requests
              /\ serviceStream' = serviceStream ]_vars

\* A start rejected while the held stream is live and listening.
C2_Witness ==
    /\ last.op = "streamServiceChanges"
    /\ last.held # NoStream
    /\ last.made = 0
    /\ promises[last.promise].state = "rejected"
    /\ requests[last.held].state = "open"
    /\ requests[last.held].listening

\* C3: once the stream request has had its terminal response the manager
\* holds no stream (or, after a 307, the live reconnect): a held stream is
\* never one whose callback has already run.
C3_TerminalResponseNullsStream ==
    serviceStream # NoStream => requests[serviceStream].state = "open"

\* Where a redirect to location is meant to send the retried request.
RedirectTarget(location) ==
    CASE location = "https://host1.nest.com/devices" -> "https://host1.nest.com"
      [] location = "http://host2.nest.com" -> "https://host2.nest.com"

PutPath(update) ==
    "/devices/" \o update.deviceData["_deviceType"] \o "/"
        \o update.deviceData.device_id \o "/" \o update.keyToUpdate

\* C9: a 307 answer to a PUT makes exactly one retried request, for the same
\* update and promise, addressed to https:// plus the host of the Location
\* header; when a retried request succeeds its promise is resolved with the
\* response body.
C9_RedirectedPutRetriedOnce ==
    /\ (last.op = "putResponse" /\ ~last.response.error
            /\ last.response.statusCode = 307) =>
          /\ last.made = 1
          /\ requests[Len(requests)].kind = "put"
          /\ requests[Len(requests)].state = "open"
          /\ requests[Len(requests)].update = requests[last.request].update
          /\ requests[Len(requests)].promise = requests[last.request].promise
          /\ requests[Len(requests)].url =
                 RedirectTarget(last.response.location)
                     \o PutPath(requests[last.request].update)
          /\ promises[requests[last.request].promise].state = "pending"
    /\ (last.op = "putResponse" /\ ~last.response.error
            /\ last.response.statusCode = 200 /\ requests[last.request].retry) =>
          /\ last.made = 0
          /\ promises[requests[last.request].promise] =
                 [state |-> "resolved", value |-> [body |-> last.response.body]]

\* A retried PUT, sent to the redirect host, that succeeded.
C9_Witness ==
    /\ last.op = "putResponse"
    /\ last.response.statusCode = 200
    /\ requests[last.request].retry
    /\ requests[last.request].url = "https://host2.nest.com/devices/thermostats/A/target"
    /\ promises[requests[last.request].promise].state = "resolved"

MakesRequest ==
    /\ last.op \in {"streamServiceChanges", "updateDevice", "streamResponse",
                    "putResponse"}
    /\ last.made = 1

\* C10: every stream or PUT request is addressed to the cached redirect
\* while one is cached and to the default API root while none is.
C10_RequestsPreferCachedRedirect ==
    MakesRequest =>
        LET made == requests[Len(requests)]
            base == IF cachedRedirectUrl # Null THEN cachedRedirectUrl ELSE apiUrl
        IN  made.url = IF made.kind = "stream" THEN base
                       ELSE base \o PutPath(made.update)

\* A stream started on the host a PUT's redirect had cached.
C10_Witness ==
    /\ last.op = "streamServiceChanges"
    /\ last.made = 1
    /\ cachedRedirectUrl = "https://host1.nest.com"
    /\ requests[Len(requests)].url = "https://host1.nest.com"
    /\ \A i \in DOMAIN requests : requests[i].kind = "stream" => i = Len(requests)

\* The last handler was the callback of a stream or PUT request.
LastAnswered == last.op \in {"streamResponse", "putResponse"}

\* C11: a 401 answer to the stream request or to a PUT request leaves the
\* access token null and the promise of that request rejected with
\* AUTH_ERROR.
C11_AuthErrorClearsTokenAndRejects ==
    (LastAnswered /\ ~last.response.error /\ last.response.statusCode = 401) =>
        /\ accessToken = Null
        /\ promises[requests[last.request].promise] =
               [state |-> "rejected", value |-> [error |-> "AUTH_ERROR"]]
        /\ last.made = 0

\* A 401 that took away a token that was set, on a stream and on a PUT.
C11_Witness ==
    /\ LastAnswered
    /\ last.response.statusCode = 401
    /\ last.token = "tokA"
    /\ accessToken = Null
    /\ promises[requests[last.request].promise].state = "rejected"

\* C12: a request that fails without a response clears a cached redirect and
\* is repeated once against the default API root when a redirect was
\* cached, and otherwise rejects its promise.
C12_ConnectionErrorRetriesOrRejects ==
    (LastAnswered /\ last.response.error) =>
        IF last.cache # Null
        THEN /\ cachedRedirectUrl = Null
             /\ last.made = 1
             /\ requests[Len(requests)].promise = requests[last.request].promise
             /\ SubSeq(requests[Len(requests)].url, 1, Len(apiUrl)) = apiUrl
        ELSE /\ last.made = 0
             /\ promises[requests[last.request].promise].state = "rejected"

\* C15: streamServiceChanges or updateDevice called while the access token
\* is null makes no request and rejects its promise.
C15_NoTokenNoRequest ==
    (last.op \in {"streamServiceChanges", "updateDevice"} /\ accessToken = Null) =>
        /\ last.made = 0
        /\ promises[last.promise].state = "rejected"

\* C17: removeToken leaves the access token null and the cached redirect
\* null.
C17_RemoveTokenClearsRedirect ==
    last.op = "removeToken" => accessToken = Null /\ cachedRedirectUrl = Null

(***************************************************************************)
(* The stream model: a caller sets a token and starts the stream; the      *)
(* server redirects it, ends it, and sends data chunks.                    *)
(***************************************************************************)
StreamResponses ==
    {r \in Responses : r.statusCode = 200
                          \/ r.location = "https://host1.nest.com/devices"}

StreamNext ==
    \/ \E t \in Tokens : setToken(t) /\ UNCHANGED <<autoReinitStream, harnessVars, rmVars>>
    \/ streamServiceChanges /\ UNCHANGED <<autoReinitStream, harnessVars, rmVars>>
    \/ \E i \in DOMAIN requests, r \in StreamResponses :
           streamResponse(i, r) /\ UNCHANGED <<autoReinitStream, harnessVars, rmVars>>
    \/ \E i \in DOMAIN requests, chunk \in StreamChunks :
           streamData(i, chunk) /\ UNCHANGED <<autoReinitStream, harnessVars, rmVars>>

SpecStream == TransportInit /\ [][StreamNext]_vars

\* The last handler was the data listener, given a revocation event.
LastRevoked ==
    /\ last.op = "data"
    /\ last.chunk = "event: auth_revoked\ndata: null"

\* C13: once the data listener has handled an auth_revoked event the access
\* token and the cached redirect are null and no serviceStreamDataUpdate
\* was emitted for it.
C13_RevocationClearsTokenAndRedirect ==
    LastRevoked =>
        /\ accessToken = Null
        /\ cachedRedirectUrl = Null
        /\ Len(dataUpdates) = last.updates

\* A revocation that arrived on a redirected stream while a token was set.
C13_Witness ==
    /\ LastRevoked
    /\ last.token = "tokA"
    /\ last.cache = "https://host1.nest.com"
    /\ accessToken = Null
    /\ cachedRedirectUrl = Null

(***************************************************************************)
(* The token model: a caller sets tokens (strings or not), removes them    *)
(* and starts streams, which the server ends.                              *)
(***************************************************************************)
TokenStrings == Tokens \cup {"", "tokB"}

TokenNext ==
    \/ \E t \in TokenStrings : setToken(t) /\ UNCHANGED <<autoReinitStream, harnessVars, rmVars>>
    \/ setTokenNotString /\ UNCHANGED <<autoReinitStream, harnessVars, rmVars>>
    \/ removeToken /\ UNCHANGED <<autoReinitStream, harnessVars, rmVars>>
    \/ streamServiceChanges /\ UNCHANGED <<autoReinitStream, harnessVars, rmVars>>
    \/ \E i \in DOMAIN requests, r \in {r \in Responses : r.statusCode = 200} :
           streamResponse(i, r) /\ UNCHANGED <<autoReinitStream, harnessVars, rmVars>>

SpecTokens == TransportInit /\ [][TokenNext]_vars

\* C16: setToken with a string holds that string and returns the manager;
\* with anything else it throws TokenMustBeString and the token held, or
\* its absence, is as before.
C16_SetTokenStringOrThrow ==
    /\ last.op = "setToken" => accessToken = last.token /\ last.returns = "this"
    /\ last.op = "setTokenNotString" =>
          /\ accessToken = last.token
          /\ Len(uncaught) >= 1
          /\ uncaught[Len(uncaught)] = "TokenMustBeString"

\* A rejected argument that left a held token in place.
C16_Witness ==
    /\ last.op = "setTokenNotString"
    /\ accessToken = "tokA"
    /\ uncaught = <<"TokenMustBeString">>

(***************************************************************************)
(* The error model: every open request is answered with one of the         *)
(* reserved error statuses.                                                *)
(***************************************************************************)
ErrorResponses ==
    {r \in Responses : r.statusCode \in {400, 404, 500, 403, 503, 429}}

ErrorNext ==
    \/ streamServiceChanges /\ UNCHANGED <<autoReinitStream, harnessVars, rmVars>>
    \/ \E u \in Updates : updateDevice(u) /\ UNCHANGED <<autoReinitStream, harnessVars, rmVars>>
    \/ \E i \in DOMAIN requests, r \in ErrorResponses :
           streamResponse(i, r) /\ UNCHANGED <<autoReinitStream, harnessVars, rmVars>>
    \/ \E i \in DOMAIN requests, r \in ErrorResponses :
           putResponse(i, r) /\ UNCHANGED <<autoReinitStream, harnessVars, rmVars>>

SpecErrors == TransportInit /\ [][ErrorNext]_vars

\* The error each reserved status is classified as.
Classified(response) ==
    CASE response.statusCode = 429 -> [error |-> "UNDER_RATE_LIMITS"]
      [] response.statusCode = 404 -> [error |-> "PATH_NOT_FOUND"]
      [] response.statusCode = 500 -> [error |-> "API_INTERNAL_ERROR"]
      [] response.statusCode = 403 -> [error |-> "FORBIDDEN"]
      [] response.statusCode = 503 -> [error |-> "SERVICE_UNAVAILABLE"]
      [] response.statusCode = 400 /\ response.body = "{\"error\":1}" ->
            [parsed |-> "{\"error\":1}"]
      [] response.statusCode = 400 /\ response.body = "Bad" ->
            [unableToParseAPIError |-> TRUE, rawError |-> "Bad"]

\* C14: a 429, 404, 500, 403, 503 or 400 answer to a stream or PUT request
\* rejects that request's promise with the error of that status (for 400 the
\* decoded body, or the parse-failure marker with the raw body) and makes no
\* further request.
C14_ReservedStatusRejectsClassified ==
    (LastAnswered /\ ~last.response.error
        /\ last.response.statusCode \in {429, 404, 500, 403, 503, 400}) =>
        /\ last.made = 0
        /\ promises[requests[last.request].promise] =
               [state |-> "rejected", value |-> Classified(last.response)]
        /\ \A i \in DOMAIN requests :
               requests[i].promise = requests[last.request].promise =>
                   requests[i].state = "done"

\* A 400 with an undecodable body on a PUT, after a 429 on the stream.
C14_Witness ==
    /\ last.op = "putResponse"
    /\ last.response.statusCode = 400
    /\ last.response.body = "Bad"
    /\ promises[requests[last.request].promise].value =
           [unableToParseAPIError |-> TRUE, rawError |-> "Bad"]
    /\ \E p \in DOMAIN promises :
           promises[p] = [state |-> "rejected", value |-> [error |-> "UNDER_RATE_LIMITS"]]

(***************************************************************************)
(* The query model: a representation manager fed stream updates whose      *)
(* device records carry their device_id, with callers that register        *)
(* listeners, read the caches and write to what they were handed.          *)
(***************************************************************************)
QueryDevices ==
    { EmptyObject,
      [thermostats |-> [A |-> [device_id |-> "A", name |-> "den"]]],
      [cameras |-> [B |-> [device_id |-> "B", name |-> "hall"]]],
      [thermostats |-> [A |-> [device_id |-> "A", name |-> "den"]],
       cameras |-> [B |-> [device_id |-> "B", name |-> "hall"]]] }

QueryUpdateObjects ==
    {[event |-> "put", body |-> [path |-> "/",
          data |-> [structures |-> [S1 |-> [name |-> "home"]]]]]}
    \cup {[event |-> "put", body |-> [path |-> "/",
               data |-> [devices |-> d, structures |-> [S1 |-> [name |-> "home"]]]]] :
              d \in QueryDevices}

\* The orders in which an update can list the keys of its devices container.
KeyOrders(updateObject) ==
    IF ~hasContainer(updateObject, "devices") THEN {<<>>}
    ELSE LET ks == DOMAIN updateObject.body.data.devices
         IN  {o \in [1..Cardinality(ks) -> ks] :
                  \A i, j \in DOMAIN o : i # j => o[i] # o[j]}

QueryIds == {"A", "B", "Z"}

QueryNext ==
    \/ \E u \in QueryUpdateObjects : \E o \in KeyOrders(u) : ReconcileInOrder(u, o)
    \/ addHydratedListener("f") /\ UNCHANGED <<nmVars, harnessVars>>
    \/ addUpdateListener("f") /\ UNCHANGED <<nmVars, harnessVars>>
    \/ getAllDevices /\ UNCHANGED <<nmVars, harnessVars>>
    \/ getAllStructures /\ UNCHANGED <<nmVars, harnessVars>>
    \/ \E id \in QueryIds : GetDeviceById(id) /\ UNCHANGED <<nmVars, harnessVars>>
    \/ \E k \in DOMAIN handed : CallerAssigns(k) /\ UNCHANGED <<nmVars, harnessVars>>

SpecQueries == ReconInit /\ [][QueryNext]_vars

\* C18: nothing handed to a caller is the manager's own cache object: a
\* caller's write to the object it was handed leaves both caches as they
\* were.
C18_HandedObjectsAreCopies ==
    last.op = "callerAssigns" =>
        /\ localDeviceCache = last.before.devices
        /\ localStructureCache = last.before.structures

\* The objects handed by the last call of addHydratedListener itself.
HandedOnRegistration ==
    IF last.hydrated THEN {Len(handed)} ELSE {}

\* C19: a hydrated listener added after hydration is called once, inside
\* addHydratedListener, with what a hydrated emission delivers (copies of
\* the devices and of the structures); one added before hydration is not
\* called on registration and is called once when hydration occurs.
C19_LateHydratedListenerGetsSnapshot ==
    /\ (last.op = "addHydratedListener" /\ last.hydrated) =>
          /\ listeners[Len(listeners)].calls = 1
          /\ \A j \in HandedOnRegistration :
                 handed[j].value = [devices |-> localDeviceCache,
                                    structures |-> localStructureCache]
    /\ (last.op = "addHydratedListener" /\ ~last.hydrated) =>
          listeners[Len(listeners)].calls = 0
    /\ \A k \in DOMAIN listeners :
          listeners[k].event = "hydrated" => listeners[k].calls = IF hydrated THEN 1 ELSE 0

\* The device records of the cache whose device_id is stringId.
RecordsWithId(stringId) ==
    UNION { { localDeviceCache[t][k] :
                k \in {k \in DOMAIN localDeviceCache[t] :
                          /\ has(localDeviceCache[t][k], "device_id")
                          /\ localDeviceCache[t][k].device_id = stringId} } :
            t \in DOMAIN localDeviceCache }

\* C20: getDeviceById returns the record carrying that device_id when some
\* bucket of the cache holds one, and null exactly when none does.
C20_GetDeviceByIdFindsInAnyBucket ==
    last.op = "getDeviceById" =>
        IF RecordsWithId(last.stringId) = {}
        THEN last.returns = NullRecord
        ELSE last.returns \in RecordsWithId(last.stringId)

(***************************************************************************)
(* The name model: a representation manager fed stream updates in which    *)
(* devices share names, inside a bucket and across buckets, and callers    *)
(* that look devices up by name.                                           *)
(***************************************************************************)
NameDevices ==
    { EmptyObject,
      [thermostats |-> [A |-> [device_id |-> "A", name |-> "den"],
                        C |-> [device_id |-> "C", name |-> "den"]]],
      [thermostats |-> [A |-> [device_id |-> "A", name |-> "den"]],
       cameras |-> [B |-> [device_id |-> "B", name |-> "den"]]],
      [thermostats |-> [A |-> [device_id |-> "A", name |-> "den"]],
       cameras |-> [B |-> [device_id |-> "B", name |-> "hall"]]] }

NameUpdateObjects ==
    {[event |-> "put", body |-> [path |-> "/", data |-> [devices |-> d]]] :
        d \in NameDevices}

Names == {"den", "hall", "attic"}

IdOrders ==
    {o \in [1..3 -> {"A", "B", "C"}] : \A i, j \in 1..3 : i # j => o[i] # o[j]}

NameNext ==
    \/ \E u \in NameUpdateObjects : \E o \in KeyOrders(u) : ReconcileInOrder(u, o)
    \/ \E n \in Names, o \in IdOrders :
           GetDeviceByName(n, o) /\ UNCHANGED <<nmVars, harnessVars>>

SpecNames == ReconInit /\ [][NameNext]_vars

\* The device records of the cache whose name is stringName.
RecordsNamed(stringName) ==
    UNION { { localDeviceCache[t][k] :
                k \in {k \in DOMAIN localDeviceCache[t] :
                          /\ has(localDeviceCache[t][k], "name")
                          /\ localDeviceCache[t][k].name = stringName} } :
            t \in DOMAIN localDeviceCache }

\* C21: getDeviceByName returns null when no device has the name, the one
\* record when exactly one has it, and an array holding every device of
\* that name when several share it, in one bucket or across buckets.
C21_GetDeviceByNameReturnsEveryMatch ==
    last.op = "getDeviceByName" =>
        LET all == RecordsNamed(last.stringName)
            items == last.returns.items
        IN  /\ {items[i] : i \in DOMAIN items} = all
            /\ Len(items) = Cardinality(all)
            /\ last.returns.shape =
                   IF Cardinality(all) = 0 THEN "null"
                   ELSE IF Cardinality(all) = 1 THEN "record" ELSE "array"

(***************************************************************************)
(* The listener model: callers register and unregister two callbacks for   *)
(* the hydrated and update events while stream updates are handled.        *)
(***************************************************************************)
Callbacks == {"f", "g"}

ListenerUpdateObjects ==
    {u \in QueryUpdateObjects :
        hasContainer(u, "devices") => DOMAIN u.body.data.devices = {"thermostats"}}

ListenerNext ==
    \/ \E u \in ListenerUpdateObjects : \E o \in KeyOrders(u) : ReconcileInOrder(u, o)
    \/ \E fn \in Callbacks : addHydratedListener(fn) /\ UNCHANGED <<nmVars, harnessVars>>
    \/ \E fn \in Callbacks : addUpdateListener(fn) /\ UNCHANGED <<nmVars, harnessVars>>
    \/ \E fn \in Callbacks : removeHydratedListener(fn) /\ UNCHANGED <<nmVars, harnessVars>>
    \/ \E fn \in Callbacks : removeUpdateListener(fn) /\ UNCHANGED <<nmVars, harnessVars>>

SpecListeners == ReconInit /\ [][ListenerNext]_vars

\* The calls a step makes to a callback: the objects it hands to it.
CallsMade(fn) ==
    Cardinality({j \in DOMAIN handed' : j > Len(handed) /\ handed'[j].listener = fn})

\* The registrations a callback holds for an event once the step is over.
RegistrationsLeft(event, fn) ==
    Cardinality({k \in DOMAIN listeners' :
                    listeners'[k].event = event /\ listeners'[k].fn = fn})

Unregistered(op, event) ==
    last'.op = op =>
        \A fn \in Callbacks :
            RegistrationsLeft(event, fn) =
                IF fn = last'.fn /\ Registrations(event, fn) # {}
                THEN Cardinality(Registrations(event, fn)) - 1
                ELSE Cardinality(Registrations(event, fn))

\* C26 (as the code has it): an emission calls every callback once for each
\* registration it holds for that event, so a callback registered twice is
\* called twice; unregistering drops one registration of that callback, the
\* others and the other callbacks keep theirs, and a callback left without
\* registration is not called.
C26_EachRegistrationCalledOnce ==
    [][ /\ last'.op = "reconcile" =>
              \A fn \in Callbacks :
                  CallsMade(fn) = Cardinality(Registrations(emittedEvent, fn))
        /\ Unregistered("removeHydratedListener", "hydrated")
        /\ Unregistered("removeUpdateListener", "update") ]_vars

\* An update emission that called a callback twice, for its two
\* registrations.
C26_Witness ==
    /\ last.op = "reconcile"
    /\ Len(listeners) = 2
    /\ listeners[1].event = "update" /\ listeners[2].event = "update"
    /\ listeners[1].fn = "f" /\ listeners[2].fn = "f"
    /\ listeners[1].calls = 1 /\ listeners[2].calls = 1
    /\ Len(handed) = 2

\* C26 as stated: an emission calls every callback registered for the event
\* exactly once, and a callback that is not registered not at all.
C26_EachCallbackCalledOnce ==
    [][ last'.op = "reconcile" =>
            \A fn \in Callbacks :
                CallsMade(fn) = IF Registrations(emittedEvent, fn) # {} THEN 1 ELSE 0 ]_vars

\* C22: when the stream request ends without error and without a reserved
\* status, the manager holds no stream, the promise of the start is resolved
\* with the body, and serviceStreamClosed is emitted exactly once.
C22_NormalEndCleansUp ==
    (last.op = "streamResponse" /\ ~last.response.error
        /\ last.response.statusCode \notin reservedErrorCodes) =>
        /\ serviceStream = NoStream
        /\ promises[requests[last.request].promise] =
               [state |-> "resolved", value |-> [body |-> last.response.body]]
        /\ closedEvents = last.closed + 1
        /\ last.made = 0

\* The second normal end of a run, of a stream that had been redirected.
C22_Witness ==
    /\ last.op = "streamResponse"
    /\ last.response.statusCode = 200
    /\ requests[last.request].retry
    /\ serviceStream = NoStream
    /\ closedEvents = 2

(***************************************************************************)
(* The OAuth model: callers set tokens and run the pin flow; the token     *)
(* endpoint answers with a token, with an error body, with something that  *)
(* is not JSON, or not at all.                                             *)
(***************************************************************************)
OauthResponses ==
    { Response(TRUE, 0, "", ""),
      Response(FALSE, 200, "", "{\"access_token\":\"tokB\"}"),
      Response(FALSE, 400, "", "{\"error\":\"oauth2_error\"}"),
      Response(FALSE, 503, "", "Service Unavailable") }

OauthNext ==
    \/ \E t \in Tokens : setToken(t) /\ UNCHANGED <<autoReinitStream, harnessVars, rmVars>>
    \/ removeToken /\ UNCHANGED <<autoReinitStream, harnessVars, rmVars>>
    \/ doOauth /\ UNCHANGED <<autoReinitStream, harnessVars, rmVars>>
    \/ \E i \in DOMAIN requests, r \in OauthResponses :
           oauthResponse(i, r) /\ UNCHANGED <<autoReinitStream, harnessVars, rmVars>>

SpecOauth == TransportInit /\ [][OauthNext]_vars

EventTypes == {"put", "keep-alive", "auth_revoked", "cancel", "a:b", "data"}

EventData ==
    Bodies \cup {"{}", "0", "12", "\"x\"", "{\"a\":\"b:c\"}"}

StreamUpdate(X, Y) == "event: " \o X \o "\n" \o "data: " \o Y

ExtractEventType(X, Y) ==
    /\ last' = [op |-> "extractStreamUpdateEventType", X |-> X, Y |-> Y,
                 returns |-> extractStreamUpdateEventType(
                                 splitStringByNewlines(StreamUpdate(X, Y)))]
    /\ UNCHANGED <<nmVars, harnessVars, rmVars>>

ExtractEventBody(X, Y) ==
    /\ last' = [op |-> "extractAndParseStreamUpdateEventBody", X |-> X, Y |-> Y,
                 returns |-> extractAndParseStreamUpdateEventBody(
                                 splitStringByNewlines(StreamUpdate(X, Y)))]
    /\ UNCHANGED <<nmVars, harnessVars, rmVars>>

CodecNext ==
    \/ \E X \in EventTypes, Y \in EventData : ExtractEventType(X, Y)
    \/ \E X \in EventTypes, Y \in EventData : ExtractEventBody(X, Y)

SpecCodec == TransportInit /\ [][CodecNext]_vars

\* C24: for a two-line update "event: X" / "data: Y" with Y valid JSON the
\* codec gives X as the event type and the JSON value of Y as the parsed
\* body, also when X or Y holds a ":" or Y holds "data:".
C24_CodecRoundTrip ==
    /\ last.op = "extractStreamUpdateEventType" =>
          ~last.returns.threw /\ last.returns.type = last.X
    /\ last.op = "extractAndParseStreamUpdateEventBody" =>
          ~last.returns.threw /\ last.returns.parsed = JSONParse(last.Y)

(***************************************************************************)
(* The mutation model: device updates are issued and answered while a      *)
(* stream is open and delivers a put in two chunks.                        *)
(***************************************************************************)
MutationChunks == {"event: put\ndata: {\"a\":", "1}"}

MutationNext ==
    \/ streamServiceChanges /\ UNCHANGED <<autoReinitStream, harnessVars, rmVars>>
    \/ \E u \in Updates : updateDevice(u) /\ UNCHANGED <<autoReinitStream, harnessVars, rmVars>>
    \/ \E i \in DOMAIN requests, r \in TransportResponses :
           putResponse(i, r) /\ UNCHANGED <<autoReinitStream, harnessVars, rmVars>>
    \/ \E i \in DOMAIN requests, chunk \in MutationChunks :
           streamData(i, chunk) /\ UNCHANGED <<autoReinitStream, harnessVars, rmVars>>

SpecMutation == TransportInit /\ [][MutationNext]_vars

\* C25: updateDevice may be called while a stream is held, and neither the
\* call nor the handling of any answer to a PUT (success, redirect and
\* retry, error) changes the stream held, any stream request or its data
\* listener, or the chunk queue; a listening stream goes on taking chunks.
C25_MutationLeavesStreamAlone ==
    /\ [][ last'.op \in {"updateDevice", "putResponse"} =>
              /\ serviceStream' = serviceStream
              /\ chunkedPutMessagesAwaitingCompletion' =
                     chunkedPutMessagesAwaitingCompletion
              /\ \A i \in DOMAIN requests :
                     requests[i].kind = "stream" => requests'[i] = requests[i] ]_vars
    /\ []( (last.op \in {"updateDevice", "putResponse"}
                 /\ serviceStream # NoStream) =>
              /\ requests[serviceStream].state = "open"
              /\ requests[serviceStream].listening )

\* A redirect of a PUT handled between the two chunks of a put, with the
\* stream still listening.
C25_Witness ==
    /\ last.op = "putResponse"
    /\ last.response.statusCode = 307
    /\ chunkedPutMessagesAwaitingCompletion # <<>>
    /\ serviceStream # NoStream
    /\ requests[serviceStream].state = "open"
    /\ requests[serviceStream].listening

(***************************************************************************)
(* The chunk queue under the stream model.                                 *)
(***************************************************************************)
\* The chunk carries no "event: " marker.
Unmarked(chunk) == ~Contains(chunk, "event: ")

\* The chunk is a put event whose body does not parse: the start of a
\* chunked series.
UnparseablePut(chunk) ==
    /\ Contains(chunk, "event: ")
    /\ ~extractStreamUpdateEventType(splitStringByNewlines(chunk)).threw
    /\ extractStreamUpdateEventType(splitStringByNewlines(chunk)).type = "put"
    /\ ~extractAndParseStreamUpdateEventBody(splitStringByNewlines(chunk)).threw
    /\ extractAndParseStreamUpdateEventBody(splitStringByNewlines(chunk)).parsed
           = JsFalse

\* C27: a chunk without an "event: " marker that arrives while the chunk
\* queue is empty (no chunked series in progress) never leaves the queue
\* non-empty.
C27_UnmarkedChunkLeavesQueueEmpty ==
    (last.op = "data" /\ Unmarked(last.chunk) /\ last.queue = <<>>)
        => chunkedPutMessagesAwaitingCompletion = <<>>

\* C28: after a put event whose body does not parse arrives over a non-empty
\* chunk queue, the queue holds exactly the raw body text of that chunk, one
\* data-loss warning has been logged and no event has been emitted.
C28_NewSeriesReplacesQueue ==
    (last.op = "data" /\ UnparseablePut(last.chunk) /\ last.queue # <<>>)
        => /\ chunkedPutMessagesAwaitingCompletion =
                  << extractAndParseStreamUpdateEventBody(
                         splitStringByNewlines(last.chunk)).raw >>
           /\ warnings = last.warnings + 1
           /\ Len(dataUpdates) = last.updates

(***************************************************************************)
(* The keep-alive model: a caller sets a token and starts the stream, the  *)
(* server may redirect it, and sends one put event cut into fragments with *)
(* one event of another type somewhere among them.                         *)
(***************************************************************************)
KeepAliveBodies == { "{\"a\":1}", "{\"a\":\"x y\"}" }

\* Stream events that are neither put nor auth_revoked.
IdleChunks == { "event: keep-alive\ndata: null", "event: error\ndata: null" }

InsertAt(chunks, k, chunk) ==
    SubSeq(chunks, 1, k) \o <<chunk>> \o SubSeq(chunks, k + 1, Len(chunks))

\* Where the server cuts the body: after the opening brace and quote, after
\* the key and colon, and before the last character.
KeepAliveCuts(body) == {2, 5, Len(body) - 1}

KeepAliveWires(body) ==
    UNION { { InsertAt(Chunks(body, c), k, idle) :
                  k \in 0..Len(Chunks(body, c)), idle \in IdleChunks } :
            c \in {cuts \in CutSets(body) : cuts \subseteq KeepAliveCuts(body)} }

KeepAliveInit ==
    /\ NMInit
    /\ RMInit
    /\ last = NoCall
    /\ original \in KeepAliveBodies
    /\ wire \in KeepAliveWires(original)

KeepAliveRedirects == {r \in Responses : r.location = "https://host1.nest.com/devices"}

\* The next chunk on the wire reaches the 'data' listener of stream request i.
streamWire(i) ==
    /\ wire # <<>>
    /\ requests[i].kind = "stream"
    /\ requests[i].state = "open"
    /\ requests[i].listening
    /\ _determineStreamUpdateType(Head(wire))
    /\ wire' = Tail(wire)
    /\ delivered' = delivered + 1
    /\ last' = [op |-> "data", chunk |-> Head(wire), updates |-> Len(dataUpdates),
                token |-> accessToken, cache |-> cachedRedirectUrl,
                queue |-> chunkedPutMessagesAwaitingCompletion,
                warnings |-> warnings, stream |-> serviceStream,
                thrown |-> Len(uncaught)]
    /\ UNCHANGED <<serviceStream, requests, promises, closedEvents, original,
                   autoReinitStream, rmVars>>

KeepAliveNext ==
    \/ \E t \in Tokens : setToken(t) /\ UNCHANGED <<autoReinitStream, harnessVars, rmVars>>
    \/ streamServiceChanges /\ UNCHANGED <<autoReinitStream, harnessVars, rmVars>>
    \/ \E i \in DOMAIN requests, r \in KeepAliveRedirects :
           streamResponse(i, r) /\ UNCHANGED <<autoReinitStream, harnessVars, rmVars>>
    \/ \E i \in DOMAIN requests : streamWire(i)

SpecKeepAlive == KeepAliveInit /\ [][KeepAliveNext]_vars

\* The chunk is an event of a type other than put and auth_revoked.
IdleEvent(chunk) ==
    /\ Contains(chunk, "event: ")
    /\ ~extractStreamUpdateEventType(splitStringByNewlines(chunk)).threw
    /\ extractStreamUpdateEventType(splitStringByNewlines(chunk)).type
           \notin {"put", "auth_revoked"}

\* C29: after the data listener has processed a keep-alive (or any event
\* other than put and auth_revoked) no data update has been delivered and the
\* chunk queue, the access token, the cached redirect URL and the held
\* stream are what they were before, also between the fragments of a put.
C29_IdleEventChangesNothing ==
    (last.op = "data" /\ IdleEvent(last.chunk))
        => /\ Len(dataUpdates) = last.updates
           /\ chunkedPutMessagesAwaitingCompletion = last.queue
           /\ accessToken = last.token
           /\ cachedRedirectUrl = last.cache
           /\ serviceStream = last.stream
           /\ warnings = last.warnings

\* A keep-alive has just been processed between the fragments of a put, on
\* a redirected stream with a token set.
C29_Witness ==
    /\ last.op = "data"
    /\ IdleEvent(last.chunk)
    /\ last.queue # <<>>
    /\ wire # <<>>
    /\ accessToken # Null
    /\ cachedRedirectUrl # Null
    /\ serviceStream # NoStream

\* C30: a reconciliation of a payload without the device container leaves
\* localDeviceCache as it was, and one of a payload without the structure
\* container leaves localStructureCache as it was.
C30_AbsentContainerLeavesCache ==
    last.op = "reconcile" =>
        /\ ~hasContainer(last.update, "devices")
               => localDeviceCache = last.before.devices
        /\ ~hasContainer(last.update, "structures")
               => localStructureCache = last.before.structures

\* A payload with the device container only has changed the device cache
\* while a non-empty structure cache stayed.
C30_Witness ==
    /\ last.op = "reconcile"
    /\ hasContainer(last.update, "devices")
    /\ ~hasContainer(last.update, "structures")
    /\ last.before.structures # EmptyObject
    /\ localStructureCache = last.before.structures
    /\ localDeviceCache # last.before.devices

(***************************************************************************)
(* What the caches hold after a reconciliation.                            *)
(***************************************************************************)
\* C31: after a reconciliation of a non-empty structure container the cache
\* holds exactly the upstream structure ids, and every cached structure
\* record equals the upstream record as a whole (no field of the old local
\* record survives).
C31_StructureRecordOverwritten ==
    (/\ last.op = "reconcile"
     /\ hasContainer(last.update, "structures")
     /\ ~isEmpty(last.update.body.data.structures))
        => /\ DOMAIN localStructureCache = DOMAIN last.update.body.data.structures
           /\ \A id \in DOMAIN localStructureCache :
                  localStructureCache[id] = last.update.body.data.structures[id]

\* C32: after a reconciliation of a non-empty device container the cache
\* holds exactly the upstream device types and, under each, exactly the
\* upstream device ids; after one of a structure container the cache holds
\* exactly the upstream structure ids.
C32_CachedIdsAreUpstreamIds ==
    last.op = "reconcile" =>
        /\ (/\ hasContainer(last.update, "devices")
            /\ ~isEmpty(last.update.body.data.devices))
               => /\ DOMAIN localDeviceCache = DOMAIN last.update.body.data.devices
                  /\ \A t \in DOMAIN localDeviceCache :
                         DOMAIN localDeviceCache[t] =
                             DOMAIN last.update.body.data.devices[t]
        /\ hasContainer(last.update, "structures")
               => DOMAIN localStructureCache =
                      DOMAIN last.update.body.data.structures

\* A reconciliation has removed a device id, a whole device type and a
\* structure id that the cache held before.
C32_Witness ==
    /\ last.op = "reconcile"
    /\ hasContainer(last.update, "devices")
    /\ hasContainer(last.update, "structures")
    /\ \E t \in DOMAIN last.before.devices \cap DOMAIN last.update.body.data.devices :
           DOMAIN last.before.devices[t] \ DOMAIN last.update.body.data.devices[t] # {}
    /\ DOMAIN last.before.devices \ DOMAIN last.update.body.data.devices # {}
    /\ DOMAIN last.before.structures \ DOMAIN last.update.body.data.structures # {}

(***************************************************************************)
(* The error-frame model: a caller sets a token, starts the stream and     *)
(* updates a device; the server redirects or answers with an error status. *)
(***************************************************************************)
FrameResponses ==
    {r \in Responses :
        \/ r.statusCode \in {404, 500, 403, 503, 429}
        \/ r.statusCode = 400 /\ r.body = "Bad"
        \/ r.location = "https://host1.nest.com/devices"}

FrameNext ==
    \/ \E t \in Tokens : setToken(t) /\ UNCHANGED <<autoReinitStream, harnessVars, rmVars>>
    \/ streamServiceChanges /\ UNCHANGED <<autoReinitStream, harnessVars, rmVars>>
    \/ \E u \in Updates : updateDevice(u) /\ UNCHANGED <<autoReinitStream, harnessVars, rmVars>>
    \/ \E i \in DOMAIN requests, r \in FrameResponses :
           streamResponse(i, r) /\ UNCHANGED <<autoReinitStream, harnessVars, rmVars>>
    \/ \E i \in DOMAIN requests, r \in FrameResponses :
           putResponse(i, r) /\ UNCHANGED <<autoReinitStream, harnessVars, rmVars>>

SpecFrame == TransportInit /\ [][FrameNext]_vars

\* The last handler was a request callback given one of the error statuses
\* other than 401.
LastErrorStatus ==
    /\ last.op \in {"streamResponse", "putResponse"}
    /\ ~last.response.error
    /\ last.response.statusCode \in {400, 403, 404, 429, 500, 503}

\* C33: after a 400, 403, 404, 429, 500 or 503 response has been handled, on
\* the stream or on a device update, the access token and the cached
\* redirect URL are what they were before.
C33_ErrorStatusKeepsTokenAndRedirect ==
    LastErrorStatus => /\ accessToken = last.token
                       /\ cachedRedirectUrl = last.cache

\* A 403 on a device update has been handled while a token and a redirect
\* URL were held, after an error status on the stream.
C33_Witness ==
    /\ LastErrorStatus
    /\ last.op = "putResponse"
    /\ last.response.statusCode = 403
    /\ accessToken # Null
    /\ cachedRedirectUrl # Null
    /\ \E i \in DOMAIN requests :
           /\ requests[i].kind = "stream"
           /\ promises[requests[i].promise].state = "rejected"

\* Every request made for promise p has had its callback and none is open.
Ended(p) ==
    /\ \E i \in DOMAIN requests : requests[i].promise = p
    /\ \A i \in DOMAIN requests :
           requests[i].promise = p => requests[i].state = "done"

\* C34: once the requests made for a startStream or updateDevice call have
\* all ended (error status, connection failure or normal end, with no retry
\* outstanding) the promise returned by the call is settled, never pending.
C34_EndedRequestSettlesPromise ==
    \A p \in DOMAIN promises : Ended(p) => promises[p].state # "pending"

(***************************************************************************)
(* The reconnect model: a caller sets the autoReinitStream flag and starts *)
(* the stream; the server ends it.                                         *)
(***************************************************************************)
\* setAutoReinitStream: the flag is stored.
setAutoReinitStream(shouldAutoReinit) ==
    /\ autoReinitStream' = shouldAutoReinit
    /\ last' = [op |-> "setAutoReinitStream", shouldAutoReinit |-> shouldAutoReinit]
    /\ UNCHANGED <<accessToken, serviceStream, cachedRedirectUrl,
                   chunkedPutMessagesAwaitingCompletion, requests, promises,
                   dataUpdates, closedEvents, warnings, uncaught, delivered>>

ReinitResponses == {r \in Responses : r.statusCode \in {200, 401, 404}}

ReinitNext ==
    \/ \E b \in BOOLEAN : setAutoReinitStream(b) /\ UNCHANGED <<harnessVars, rmVars>>
    \/ \E t \in Tokens : setToken(t) /\ UNCHANGED <<autoReinitStream, harnessVars, rmVars>>
    \/ streamServiceChanges /\ UNCHANGED <<autoReinitStream, harnessVars, rmVars>>
    \/ \E i \in DOMAIN requests, r \in ReinitResponses :
           streamResponse(i, r) /\ UNCHANGED <<autoReinitStream, harnessVars, rmVars>>

SpecReinit == TransportInit /\ [][ReinitNext]_vars

\* C35: when autoReinitStream is true and the stream has just been closed
\* (serviceStreamClosed emitted), the manager has made a new stream request.
C35_AutoReinitReconnects ==
    (/\ last.op = "streamResponse"
     /\ closedEvents = last.closed + 1
     /\ autoReinitStream)
        => /\ last.made = 1
           /\ serviceStream # NoStream

(***************************************************************************)
(* The chunk queue across events and connections (stream model).           *)
(***************************************************************************)
\* C36: immediately after the data listener has emitted a put event the
\* chunk queue is empty, whether the event was completed from buffered
\* fragments or parsed directly while earlier fragments were buffered.
C36_QueueEmptyAfterPut ==
    (last.op = "data" /\ Len(dataUpdates) = last.updates + 1)
        => chunkedPutMessagesAwaitingCompletion = <<>>

\* C37: whenever a new stream request has just been created, by
\* streamServiceChanges or by a redirect, the chunk queue is empty.
C37_NewConnectionStartsWithEmptyQueue ==
    (last.op \in {"streamServiceChanges", "streamResponse"} /\ last.made = 1)
        => chunkedPutMessagesAwaitingCompletion = <<>>

\* A chunk of the event vocabulary whose lines are well formed: a put with a
\* body that parses, an auth_revoked or a keep-alive.
WellFormed(chunk) ==
    /\ Contains(chunk, "event: ")
    /\ ~extractStreamUpdateEventType(splitStringByNewlines(chunk)).threw
    /\ LET type == extractStreamUpdateEventType(splitStringByNewlines(chunk)).type
           body == extractAndParseStreamUpdateEventBody(splitStringByNewlines(chunk))
       IN  \/ type \in {"auth_revoked", "keep-alive"}
           \/ type = "put" /\ ~body.threw /\ body.parsed # JsFalse

\* C38: the data listener throws nothing while it handles a well-formed
\* put, auth_revoked or keep-alive chunk.
C38_WellFormedChunkRaisesNothing ==
    (last.op = "data" /\ WellFormed(last.chunk))
        => Len(uncaught) = last.thrown

(***************************************************************************)
(* The data listener across connections (transport model).                 *)
(***************************************************************************)
\* The requests that carry the bound data listener.
Listening == {i \in DOMAIN requests : requests[i].listening}

\* C39: the data listener is attached to at most one request, and only to
\* the held stream while its callback has not run: a request that has had
\* its terminal response processes no chunk.
C39_ListenerOnlyOnCurrentStream ==
    /\ Cardinality(Listening) <= 1
    /\ \A i \in Listening : /\ i = serviceStream
                            /\ requests[i].kind = "stream"
                            /\ requests[i].state = "open"
    /\ last.op = "data" => /\ last.stream # NoStream
                           /\ delivered > 0

\* After a redirect the first stream request is finished and deaf, the
\* second is held and listening, and a chunk has been processed on it.
C39_Witness ==
    /\ Len(requests) >= 2
    /\ requests[1].kind = "stream"
    /\ requests[1].state = "done"
    /\ ~requests[1].listening
    /\ serviceStream # NoStream
    /\ serviceStream # 1
    /\ requests[serviceStream].listening
    /\ last.op = "data"

====
